---------------------------- MODULE Spec2Model ----------------------------
(***************************************************************************)
(* A state-machine model of src/agents/MultiAgentOrchestrator.py: the      *)
(* agent registry, the global task queue and its assignment cycle, the     *)
(* per-task handlers, and the bounded-time coordination of several agents. *)
(*                                                                         *)
(* The program runs on one asyncio event loop: a coroutine runs without    *)
(* interruption from one await that really suspends to the next.  Each     *)
(* action below is one such uninterrupted stretch.                         *)
(*                                                                         *)
(* Numbers: the performance metrics (floats in [0,1]) are fixed-point      *)
(* integers in units of 1/Scale; trust scores are integers in units of     *)
(* 0.05; times are whole seconds.                                          *)
(***************************************************************************)
EXTENDS Integers, Sequences, FiniteSets, TLC

VARIABLES
    coordination_mode,   \* the constructor's coordination_mode
    agents,              \* self.agents: agent id -> AgentState
    capability_registry, \* self.capability_registry: capability -> list of agent ids
    trust_scores,        \* self.trust_scores: <<a, b>> -> score
    creating,            \* create_agent calls suspended in their sleep
    next_agent,          \* the next fresh agent id
    tasks,               \* every Task object created so far, by task id
    task_queue,          \* self.task_queue (task ids, in list order)
    next_task,           \* the next fresh task id
    pending_cycles,      \* _assign_tasks coroutines created and not yet run
    handler,             \* position of each _process_agent_task coroutine
    tasks_completed,     \* performance_metrics['tasks_completed']
    tasks_failed,        \* performance_metrics['tasks_failed']
    task_history,        \* self.task_history
    coord,               \* the coordinate_agents calls made so far, by call id
    coordination_history,\* self.coordination_history (the call ids of its results)
    coordination_events, \* performance_metrics['coordination_events']
    next_coord,          \* the next fresh call id
    is_running,          \* self.is_running
    initializing,        \* initialize calls waiting for their core agents: per call,
                         \* the ids of the agents it creates
    monitor_task,        \* self._monitor_task: the number of the _monitor_agents task
                         \* created last (0 = None)
    monitors,            \* the _monitor_agents tasks that have not ended
    optimizers,          \* the _optimize_system_performance tasks that have not ended
    shutting,            \* shutdown calls waiting for the cancelled monitor task
    now,                 \* datetime.now(), in seconds
    missed,              \* per task, the runs of _assign_tasks that ended with the task
                         \* pending in the queue although a suitable agent for it was
                         \* left (an observation, no program state)
    last                 \* what the last step did (an observation, no program state):
                         \* the operation, the id it was about, a flag (for
                         \* submit_task: both arguments were non-empty), an argument
                         \* (for submit_task: the priority passed) and a log (for a
                         \* run of _assign_tasks, what it found task by task; for a
                         \* monitor tick, the status each agent had when it began)

agentVars == <<agents, capability_registry, trust_scores, creating, next_agent>>
taskVars  == <<tasks, task_queue, next_task, pending_cycles>>
runVars   == <<handler, tasks_completed, tasks_failed, task_history>>
coordVars == <<coord, coordination_history, coordination_events, next_coord>>
lifeVars  == <<is_running, initializing, monitor_task, monitors, optimizers, shutting>>
vars      == <<coordination_mode, agentVars, taskVars, runVars, coordVars, lifeVars, now,
               missed, last>>

----------------------------------------------------------------------------
(* Bounds of the model *)

MaxAgents == 2
MaxTasks == 2
MaxTime == 2

(* Program constants *)

Scale == 1000
MaxAssignmentsPerCycle == 10
MinPriority == 1
MaxPriority == 10
ReliabilityThreshold == 300
InitialTrust == 10
MinTrust == 2
MaxTrust == 20
TrustGain == 1
TrustLoss == 2
MinReliability == 100
HistoryWindow == 20
ExperiencedAfter == 10
MaxExpectedTime == 10000

(* The inputs the model draws from *)

Modes == {"collaborative", "competitive", "hybrid"}
AgentTypes == {"decision_agent", "detection_agent", "execution_agent", "risk_agent",
               "monitoring_agent"}
\* "Z" is a capability no agent offers.  Unhashable stands for a requirement that
\* is no string but an unhashable value (a list): looking it up in the capability
\* registry raises TypeError.
Unhashable == "#unhashable"
NoDeadline == [has |-> FALSE, at |-> 0]
DeadlineAt(t) == [has |-> TRUE, at |-> t]
\* create_agent(agent_type, capabilities)
AgentInputs == {<<"decision_agent", {"X"}>>, <<"detection_agent", {"X", "Y"}>>}
\* submit_task(requirements, input_data is non-empty, priority, deadline)
TaskInputs ==
    {<<{}, TRUE, 5, NoDeadline>>,
     <<{"X"}, FALSE, 5, NoDeadline>>,
     <<{"X"}, TRUE, 0, NoDeadline>>,
     <<{"X"}, TRUE, 11, NoDeadline>>,
     <<{"Z"}, TRUE, 5, NoDeadline>>,
     <<{"Z"}, TRUE, 5, DeadlineAt(0)>>,
     <<{"Z"}, TRUE, 5, DeadlineAt(1)>>,
     <<{Unhashable}, TRUE, 5, NoDeadline>>}
TimeSteps == {1}
\* np.random.uniform(0.9, 1.1), in percent
JitterPercents == {90, 110}
\* processing_time of a handler, in milliseconds
ProcessingTimes == {1000}

\* the observation of a step
Did(op, id, valid) == [op |-> op, id |-> id, valid |-> valid, arg |-> 0, log |-> <<>>]

Min(a, b) == IF a < b THEN a ELSE b
Max(a, b) == IF a > b THEN a ELSE b

----------------------------------------------------------------------------
(* Helpers on sequences *)

Range(s) == {s[i] : i \in 1..Len(s)}

RECURSIVE SeqWithout(_, _)
\* [x for x in s if x != e]
SeqWithout(s, e) ==
    IF s = <<>> THEN <<>>
    ELSE IF Head(s) = e THEN SeqWithout(Tail(s), e)
    ELSE <<Head(s)>> \o SeqWithout(Tail(s), e)

RECURSIVE RemoveFirst(_, _)
\* list.remove(e): the first occurrence only
RemoveFirst(s, e) ==
    IF s = <<>> THEN <<>>
    ELSE IF Head(s) = e THEN Tail(s)
    ELSE <<Head(s)>> \o RemoveFirst(Tail(s), e)

\* every ordering of a finite set, as sequences
Orderings(S) ==
    {f \in [1..Cardinality(S) -> S] : \A i, j \in 1..Cardinality(S) : i # j => f[i] # f[j]}


----------------------------------------------------------------------------
(* AgentRegistry *)

\* _get_resource_limits(agent_type)['max_concurrent_tasks']
GetResourceLimits(type) ==
    CASE type = "decision_agent"   -> 3
      [] type = "detection_agent"  -> 8
      [] type = "execution_agent"  -> 10
      [] type = "risk_agent"       -> 15
      [] type = "monitoring_agent" -> 20
      [] OTHER                     -> 5

\* agent_configs[a].resource_limits['max_concurrent_tasks']: set from the type in
\* create_agent and never changed
MaxConcurrentTasks(ag, a) == GetResourceLimits(ag[a].agent_type)

\* the AgentState create_agent builds
NewAgentState(type, caps) ==
    [agent_type |-> type,
     status |-> "initializing",
     capabilities |-> caps,
     success_rate |-> Scale,
     reliability_score |-> Scale,
     efficiency_score |-> Scale,
     active_tasks |-> 0,
     last_heartbeat |-> now,
     task_queue |-> <<>>,
     completed_tasks |-> 0,
     failed_tasks |-> 0]

\* d[k] = v for a dict d
DictSet(d, k, v) == [x \in DOMAIN d \cup {k} |-> IF x = k THEN v ELSE d[x]]

\* the capability registry after create_agent's appends (a defaultdict(list))
RegisterCapabilities(reg, caps, id) ==
    [c \in DOMAIN reg \cup caps |->
        IF c \in caps
        THEN (IF c \in DOMAIN reg THEN reg[c] ELSE <<>>) \o <<id>>
        ELSE reg[c]]

\* the trust ledger after create_agent seeds both directions with every other agent
SeedTrust(trust, registered, id) ==
    LET new == {<<id, o>> : o \in registered \ {id}} \cup {<<o, id>> : o \in registered \ {id}}
    IN [p \in DOMAIN trust \cup new |-> IF p \in new THEN InitialTrust ELSE trust[p]]

\* create_agent, up to its await asyncio.sleep
CreateAgent(type, caps) ==
    /\ LET id == next_agent IN
        /\ agents' = DictSet(agents, id, NewAgentState(type, caps))
        /\ capability_registry' = RegisterCapabilities(capability_registry, caps, id)
        /\ trust_scores' = SeedTrust(trust_scores, DOMAIN agents \cup {id}, id)
        /\ creating' = creating \cup {id}
        /\ next_agent' = next_agent + 1
        /\ last' = Did("create_agent", id, TRUE)
    /\ UNCHANGED <<coordination_mode, lifeVars, taskVars, runVars, now, missed, coordVars>>

\* create_agent after its sleep: agent_state.status = ACTIVE (on the object the
\* coroutine holds, registered or not)
CreateAgentDone(id) ==
    /\ id \in creating
    /\ creating' = creating \ {id}
    /\ agents' = IF id \in DOMAIN agents
                 THEN [agents EXCEPT ![id].status = "active"]
                 ELSE agents
    /\ last' = Did("create_agent_done", id, TRUE)
    /\ UNCHANGED <<coordination_mode, lifeVars, capability_registry, trust_scores, next_agent,
                   taskVars, runVars, now, missed, coordVars>>

----------------------------------------------------------------------------
(* TaskQueue *)

\* ClampPriority without the lower clamp
ClampPriorityAbove(p) == Min(MaxPriority, p)

\* max(1, min(10, priority))
ClampPriority(p) == Max(MinPriority, Min(MaxPriority, p))

\* the Task submit_task builds
NewTask(reqs, prio, deadline) ==
    [priority |-> ClampPriority(prio),
     requirements |-> reqs,
     deadline |-> deadline,
     assigned_agent |-> 0,
     status |-> "pending",
     created_at |-> now]

\* KeyGeq on the creation time alone
KeyGeqCreatedOnly(tk, a, b) == tk[a].created_at >= tk[b].created_at

\* (x.priority, x.created_at) of task a is greater than or equal to that of b
KeyGeq(tk, a, b) ==
    \/ tk[a].priority > tk[b].priority
    \/ tk[a].priority = tk[b].priority /\ tk[a].created_at >= tk[b].created_at

RECURSIVE InsertByKey(_, _, _)
\* t placed behind every element whose key is >= its own
InsertByKey(tk, sorted, t) ==
    IF sorted = <<>> THEN <<t>>
    ELSE IF KeyGeq(tk, Head(sorted), t)
         THEN <<Head(sorted)>> \o InsertByKey(tk, Tail(sorted), t)
         ELSE <<t>> \o sorted

RECURSIVE SortQueue(_, _)
\* list.sort(key=lambda x: (x.priority, x.created_at), reverse=True): stable, so
\* elements of equal key keep the order they had
SortQueue(tk, q) ==
    IF q = <<>> THEN <<>>
    ELSE InsertByKey(tk, SortQueue(tk, SubSeq(q, 1, Len(q) - 1)), q[Len(q)])

\* ValidSubmission without the test of input_data
ValidSubmissionAnyInput(reqs, input_ok) == reqs # {}

\* submit_task's validation: requirements and input_data are both non-empty
ValidSubmission(reqs, input_ok) == reqs # {} /\ input_ok

\* submit_task (it has no await that suspends: one step).  A rejected call raises
\* ValueError before it touches anything.
SubmitTask(reqs, input_ok, prio, deadline) ==
    /\ IF ValidSubmission(reqs, input_ok)
       THEN LET id == next_task
                tk == DictSet(tasks, id, NewTask(reqs, prio, deadline))
            IN /\ tasks' = tk
               /\ task_queue' = SortQueue(tk, Append(task_queue, id))
               /\ next_task' = next_task + 1
               /\ pending_cycles' = pending_cycles + 1
               /\ missed' = DictSet(missed, id, 0)
               /\ last' = [Did("submit_task", id, reqs # {} /\ input_ok) EXCEPT !.arg = prio]
       ELSE /\ UNCHANGED <<taskVars, missed>>
            /\ last' = [Did("submit_task", 0, reqs # {} /\ input_ok) EXCEPT !.arg = prio]
    /\ UNCHANGED <<coordination_mode, lifeVars, agentVars, runVars, now, coordVars>>

----------------------------------------------------------------------------
(* SelectionStrategies *)

\* len(set(task.requirements) & set(agent_state.capabilities))
CapabilityMatch(task, agent) == Cardinality(task.requirements \cap agent.capabilities)

RECURSIVE SumTrust(_, _, _)
\* sum of trust_scores.get((a, other), 0.5) over the agents in others
SumTrust(a, others, trust) ==
    IF others = {} THEN 0
    ELSE LET o == CHOOSE x \in others : TRUE
         IN (IF <<a, o>> \in DOMAIN trust THEN trust[<<a, o>>] ELSE InitialTrust)
            + SumTrust(a, others \ {o}, trust)

\* CollaborativeScore with the reliability term subtracted
CollaborativeScoreLessReliability(ag, trust, task, a) ==
    LET s == ag[a]
        performance_score ==
            (s.success_rate * 40 + s.efficiency_score * 30 - s.reliability_score * 30) \div 100
        max_load == MaxConcurrentTasks(ag, a)
        load_score == Scale - (Scale * Len(s.task_queue)) \div max_load
        capability_score ==
            (Scale * CapabilityMatch(task, s)) \div Cardinality(task.requirements)
        others == DOMAIN ag \ {a}
        trust_score == IF others = {} THEN Scale
                       ELSE (Scale * SumTrust(a, others, trust))
                                \div (MaxTrust * Cardinality(others))
        total_score == (35 * performance_score + 25 * load_score
                        + 25 * capability_score + 15 * trust_score) \div 100
    IN IF others = {} THEN Scale ELSE Max(0, Min(Scale, total_score))

\* the collaborative total_score of agent a for the task, in units of 1/Scale
CollaborativeScore(ag, trust, task, a) ==
    LET s == ag[a]
        performance_score ==
            (s.success_rate * 40 + s.efficiency_score * 30 + s.reliability_score * 30) \div 100
        max_load == MaxConcurrentTasks(ag, a)
        load_score == Scale - (Scale * Len(s.task_queue)) \div max_load
        capability_score ==
            (Scale * CapabilityMatch(task, s)) \div Cardinality(task.requirements)
        others == DOMAIN ag \ {a}
        \* np.mean of an empty list is nan, and max(0.0, min(1.0, nan)) is 1.0
        trust_score == IF others = {} THEN Scale
                       ELSE (Scale * SumTrust(a, others, trust))
                                \div (MaxTrust * Cardinality(others))
        total_score == (35 * performance_score + 25 * load_score
                        + 25 * capability_score + 15 * trust_score) \div 100
    IN IF others = {} THEN Scale ELSE Max(0, Min(Scale, total_score))

\* max(scores.items(), key=lambda x: x[1])[0]: the first entry, in the order of
\* the list, whose score is maximal
FirstMax(list, score) ==
    LET best == CHOOSE i \in 1..Len(list) :
                    /\ \A j \in 1..Len(list) : score[list[j]] <= score[list[i]]
                    /\ \A j \in 1..(i - 1) : score[list[j]] < score[list[i]]
    IN list[best]

\* SelectAgentCollaborative scoring every registered agent
SelectAgentCollaborativeAmongAll(ag, trust, task, list) ==
    LET all == CHOOSE s \in Orderings(DOMAIN ag) : TRUE
    IN FirstMax(all, [a \in DOMAIN ag |-> CollaborativeScore(ag, trust, task, a)])

\* _select_agent_collaborative
SelectAgentCollaborative(ag, trust, task, list) ==
    FirstMax(list, [a \in Range(list) |-> CollaborativeScore(ag, trust, task, a)])

\* the bid of agent a; jitter is np.random.uniform(0.9, 1.1), in percent
CompetitiveBid(ag, task, a, jitter) ==
    ((ag[a].success_rate * ag[a].efficiency_score) \div Scale)
        * CapabilityMatch(task, ag[a]) * jitter * task.priority

\* _select_agent_competitive: the agents it can return, over the draws of the jitter
SelectAgentCompetitive(ag, task, list) ==
    {FirstMax(list, [a \in Range(list) |-> CompetitiveBid(ag, task, a, jit[a])]) :
        jit \in [Range(list) -> JitterPercents]}

\* SelectAgentHybrid deciding on the priority alone
SelectAgentHybridByPriority(ag, trust, task, list) ==
    IF task.priority >= 8
    THEN {SelectAgentCollaborative(ag, trust, task, list)}
    ELSE IF task.priority <= 3
    THEN SelectAgentCompetitive(ag, task, list)
    ELSE {SelectAgentCollaborative(ag, trust, task, list)}
             \cup SelectAgentCompetitive(ag, task, list)

\* _select_agent_hybrid: the agents it can return
SelectAgentHybrid(ag, trust, task, list) ==
    IF task.priority >= 8 \/ Cardinality(task.requirements) > 3
    THEN {SelectAgentCollaborative(ag, trust, task, list)}
    ELSE IF task.priority <= 3
    THEN SelectAgentCompetitive(ag, task, list)
    ELSE {SelectAgentCollaborative(ag, trust, task, list)}
             \cup SelectAgentCompetitive(ag, task, list)

\* _select_agent_for_task on a non-empty list: the agents it can return
SelectAgentForTask(mode, ag, trust, task, list) ==
    IF Len(list) = 1 THEN {list[1]}
    ELSE IF mode = "collaborative" THEN {SelectAgentCollaborative(ag, trust, task, list)}
    ELSE IF mode = "competitive" THEN SelectAgentCompetitive(ag, task, list)
    ELSE SelectAgentHybrid(ag, trust, task, list)

----------------------------------------------------------------------------
(* Assigner *)

\* the agents the capability registry lists for the task's requirements
Candidates(reg, task) ==
    UNION {Range(reg[r]) : r \in task.requirements \cap DOMAIN reg}

\* _find_suitable_agents raises: TypeError on an unhashable requirement, KeyError
\* on a listed agent that is not in self.agents
FindSuitableRaises(reg, ag, task) ==
    \/ Unhashable \in task.requirements
    \/ \E a \in Candidates(reg, task) : a \notin DOMAIN ag

\* IsSuitable with the capacity test off by one
IsSuitableAtCapacity(ag, a) ==
    /\ ag[a].status = "active"
    /\ Len(ag[a].task_queue) <= MaxConcurrentTasks(ag, a)
    /\ ag[a].reliability_score > ReliabilityThreshold

\* IsSuitable without the test of the status
IsSuitableAnyStatus(ag, a) ==
    /\ Len(ag[a].task_queue) < MaxConcurrentTasks(ag, a)
    /\ ag[a].reliability_score > ReliabilityThreshold

\* IsSuitable without the test of the reliability
IsSuitableAnyReliability(ag, a) ==
    /\ ag[a].status = "active"
    /\ Len(ag[a].task_queue) < MaxConcurrentTasks(ag, a)

\* the filter of _find_suitable_agents: status, capacity and health
IsSuitable(ag, a) ==
    /\ ag[a].status = "active"
    /\ Len(ag[a].task_queue) < MaxConcurrentTasks(ag, a)
    /\ ag[a].reliability_score > ReliabilityThreshold

\* the members of the list _find_suitable_agents returns
SuitableSet(reg, ag, task) == {a \in Candidates(reg, task) : IsSuitable(ag, a)}

\* _find_suitable_agents: the lists it can return.  The list is built by iterating
\* a set of strings, whose order the language leaves open.
FindSuitableAgents(reg, ag, task) == Orderings(SuitableSet(reg, ag, task))

\* AssignTo with the task left pending and out of assigned_tasks
AssignToLeftPending(st, t, a) ==
    [st EXCEPT !.ag[a].task_queue = Append(@, t)]

\* the loop body of _assign_tasks for a pending task t that got agent a
AssignTo(st, t, a) ==
    [st EXCEPT !.tk[t].assigned_agent = a,
               !.tk[t].status = "assigned",
               !.ag[a].task_queue = Append(@, t),
               !.assigned = Append(@, t)]

\* DeadlinePassed with a deadline at the current instant counted as passed
DeadlineReached(task, time) == task.deadline.has /\ task.deadline.at <= time

\* task.deadline and task.deadline < datetime.now()
DeadlinePassed(task, time) == task.deadline.has /\ task.deadline.at < time

\* the loop body of _assign_tasks for a pending task t that found no suitable agent
NoAgentFound(st, t, time) ==
    IF DeadlinePassed(st.tk[t], time)
    THEN [st EXCEPT !.tk[t].status = "expired", !.assigned = Append(@, t)]
    ELSE st

\* the except branch of the loop body of _assign_tasks
AssignFailed(st, t) ==
    [st EXCEPT !.tk[t].status = "error", !.assigned = Append(@, t)]

\* what a run of _assign_tasks found for task t (for the observation)
Found(st, t, suitable, raised) ==
    [st EXCEPT !.log = Append(@, [task |-> t, suitable |-> suitable, raised |-> raised])]

\* one iteration of the loop of _assign_tasks on task t: the states it can end in.
\* st = [tk: the tasks, ag: the agents, assigned: assigned_tasks, log: observations]
AssignStep(mode, reg, trust, st, t) ==
    LET task == st.tk[t] IN
    IF task.status # "pending"
    THEN {st}
    ELSE IF FindSuitableRaises(reg, st.ag, task)
    THEN {AssignFailed(Found(st, t, {}, TRUE), t)}
    ELSE LET suitable == SuitableSet(reg, st.ag, task)
             seen == Found(st, t, suitable, FALSE)
         IN IF suitable # {}
            THEN {AssignTo(seen, t, a) :
                    a \in UNION {SelectAgentForTask(mode, st.ag, trust, task, list) :
                                    list \in FindSuitableAgents(reg, st.ag, task)}}
            ELSE {NoAgentFound(seen, t, now)}

RECURSIVE AssignLoop(_, _, _, _, _)
\* the loop of _assign_tasks over the batch: the states it can end in
AssignLoop(mode, reg, trust, sts, batch) ==
    IF batch = <<>> THEN sts
    ELSE AssignLoop(mode, reg, trust,
                    UNION {AssignStep(mode, reg, trust, st, Head(batch)) : st \in sts},
                    Tail(batch))

\* Batch as the whole queue
BatchAll(q) == q

\* the slice self.task_queue[:max_assignments_per_cycle]
Batch(q) == SubSeq(q, 1, Min(MaxAssignmentsPerCycle, Len(q)))

\* RemoveAll dropping as many head tasks as there are assigned ones
RemoveHead(q, assigned) == SubSeq(q, Len(assigned) + 1, Len(q))

RECURSIVE RemoveAll(_, _)
\* for task in assigned_tasks: if task in queue: queue.remove(task)
RemoveAll(q, assigned) ==
    IF assigned = <<>> THEN q
    ELSE RemoveAll(IF Head(assigned) \in Range(q) THEN RemoveFirst(q, Head(assigned)) ELSE q,
                   Tail(assigned))

\* the handlers _assign_tasks creates: one per task it marked assigned
Dispatched(st) ==
    {t \in Range(st.assigned) : st.tk[t].status = "assigned" /\ st.tk[t].assigned_agent # 0}

\* task t is pending in queue q although a suitable agent for it is left
PassedBy(reg, ag, tk, q, t) ==
    /\ t \in Range(q)
    /\ tk[t].status = "pending"
    /\ ~FindSuitableRaises(reg, ag, tk[t])
    /\ SuitableSet(reg, ag, tk[t]) # {}

\* one run of _assign_tasks (it has no await: one step)
AssignCycle ==
    /\ pending_cycles > 0
    /\ pending_cycles' = pending_cycles - 1
    /\ IF task_queue = <<>>
       THEN /\ UNCHANGED <<tasks, task_queue, agents, handler, missed>>
            /\ last' = Did("assign_tasks", 0, TRUE)
       ELSE \E st \in AssignLoop(coordination_mode, capability_registry, trust_scores,
                                 {[tk |-> tasks, ag |-> agents, assigned |-> <<>>,
                                   log |-> <<>>]},
                                 Batch(task_queue)) :
                /\ tasks' = st.tk
                /\ agents' = st.ag
                /\ task_queue' = RemoveAll(task_queue, st.assigned)
                /\ handler' = [t \in DOMAIN handler \cup Dispatched(st) |->
                                 IF t \in Dispatched(st) THEN "created" ELSE handler[t]]
                /\ missed' = [t \in DOMAIN missed |->
                                IF PassedBy(capability_registry, st.ag, st.tk,
                                            RemoveAll(task_queue, st.assigned), t)
                                THEN missed[t] + 1 ELSE missed[t]]
                /\ last' = [Did("assign_tasks", 0, TRUE) EXCEPT !.log = st.log]
    /\ UNCHANGED <<coordination_mode, lifeVars, capability_registry, trust_scores, creating,
                   next_agent, next_task, tasks_completed, tasks_failed, task_history,
                   now, coordVars>>

----------------------------------------------------------------------------
(* PerformanceTracker and TrustLedger *)

\* the last n elements of a list: list[-n:]
LastN(s, n) == SubSeq(s, Max(1, Len(s) - n + 1), Len(s))

\* the adaptive learning rate of _update_agent_performance, in percent
LearningRate(history, a) ==
    LET recent == LastN(history, HistoryWindow)
        mine == {i \in 1..Len(recent) : recent[i].agent_id = a}
    IN IF Cardinality(mine) < ExperiencedAfter THEN 10 ELSE 5

\* learning_rate * sample + (1 - learning_rate) * old
Blend(rate, sample, old) == (rate * sample + (100 - rate) * old) \div 100

\* UpdateReliability with the penalty applied whatever the outcome
UpdateReliabilityPenalizing(r, success) ==
    Max(MinReliability, r - (5 * r) \div 100)

\* reliability_score after a task
UpdateReliability(r, success) ==
    IF success
    THEN Min(Scale, r + (2 * (Scale - r)) \div 100)
    ELSE Max(MinReliability, r - (5 * r) \div 100)

\* 1.0 - min(processing_time, max_expected_time) / max_expected_time
Efficiency(processing_time) ==
    Scale - (Scale * Min(processing_time, MaxExpectedTime)) \div MaxExpectedTime

\* _update_agent_performance: the agents after it
UpdateAgentPerformance(ag, history, a, success, processing_time) ==
    IF a \notin DOMAIN ag THEN ag
    ELSE LET rate == LearningRate(history, a) IN
         [ag EXCEPT
            ![a].success_rate = Blend(rate, IF success THEN Scale ELSE 0, @),
            ![a].reliability_score = UpdateReliability(@, success),
            ![a].efficiency_score = Blend(rate, Efficiency(processing_time), @)]

\* ShiftTrust without the clamp
ShiftTrustUnclamped(score, success) ==
    score + (IF success THEN TrustGain ELSE 0 - TrustLoss)

\* max(0.1, min(1.0, score + trust_change))
ShiftTrust(score, success) ==
    Max(MinTrust, Min(MaxTrust, score + (IF success THEN TrustGain ELSE 0 - TrustLoss)))

\* _update_trust_scores: the ledger after it
UpdateTrustScores(trust, registered, a, success) ==
    [p \in DOMAIN trust |->
        IF /\ a \in {p[1], p[2]}
           /\ p[1] # p[2]
           /\ {p[1], p[2]} \ {a} \subseteq registered
        THEN ShiftTrust(trust[p], success)
        ELSE trust[p]]

----------------------------------------------------------------------------
(* Task handlers: _process_agent_task *)

\* the finally block of _process_agent_task
HandlerCleanup(ag, a, t) ==
    IF a \in DOMAIN ag
    THEN [ag EXCEPT ![a].active_tasks = Max(0, @ - 1),
                    ![a].task_queue = SeqWithout(@, t)]
    ELSE ag

\* CountOnAgent counting the successes only
CountOnAgentSuccessOnly(ag, a, success) ==
    IF a \notin DOMAIN ag THEN ag
    ELSE IF success THEN [ag EXCEPT ![a].completed_tasks = @ + 1]
    ELSE ag

\* the counters of _handle_task_completion on the agent
CountOnAgent(ag, a, success) ==
    IF a \notin DOMAIN ag THEN ag
    ELSE IF success THEN [ag EXCEPT ![a].completed_tasks = @ + 1]
    ELSE [ag EXCEPT ![a].failed_tasks = @ + 1]

\* the handler of task t runs from its start to its await asyncio.sleep
HandlerStart(t) ==
    /\ t \in DOMAIN handler /\ handler[t] = "created"
    /\ LET a == tasks[t].assigned_agent IN
        IF a \notin DOMAIN agents
        THEN \* returns before the try
             /\ handler' = [handler EXCEPT ![t] = "done"]
             /\ UNCHANGED agents
        ELSE IF t \notin Range(agents[a].task_queue)
        THEN \* returns inside the try: the finally block runs
             /\ handler' = [handler EXCEPT ![t] = "done"]
             /\ agents' = HandlerCleanup(agents, a, t)
        ELSE /\ handler' = [handler EXCEPT ![t] = "sleeping"]
             /\ agents' = [agents EXCEPT ![a].active_tasks = @ + 1]
    /\ last' = Did("handler_start", t, TRUE)
    /\ UNCHANGED <<coordination_mode, lifeVars, capability_registry, trust_scores, creating,
                   next_agent, taskVars, tasks_completed, tasks_failed, task_history,
                   now, missed, coordVars>>

\* success = np.random.random() < reliability_score, the draw being in [0, 1)
\* (of an agent removed meanwhile the model keeps no record: either outcome)
CanDraw(ag, a, success) ==
    \/ a \notin DOMAIN ag
    \/ IF success THEN ag[a].reliability_score > 0 ELSE ag[a].reliability_score < Scale

\* the handler of task t runs from the end of its sleep to its end
HandlerFinish(t, success, processing_time) ==
    /\ t \in DOMAIN handler /\ handler[t] = "sleeping"
    /\ LET a == tasks[t].assigned_agent
           updated == UpdateAgentPerformance(agents, task_history, a, success,
                                             processing_time)
       IN /\ CanDraw(agents, a, success)
          /\ trust_scores' = UpdateTrustScores(trust_scores, DOMAIN agents, a, success)
          /\ agents' = HandlerCleanup(CountOnAgent(updated, a, success), a, t)
          /\ task_history' = Append(task_history,
                                    [task_id |-> t, agent_id |-> a, success |-> success])
    /\ tasks_completed' = tasks_completed + (IF success THEN 1 ELSE 0)
    /\ tasks_failed' = tasks_failed + (IF success THEN 0 ELSE 1)
    /\ handler' = [handler EXCEPT ![t] = "done"]
    /\ last' = Did("handler_finish", t, success)
    /\ UNCHANGED <<coordination_mode, lifeVars, capability_registry, creating, next_agent,
                   taskVars, now, missed, coordVars>>

\* the handler of task t is cancelled.  In its sleep: the CancelledError branch
\* counts a failure and the finally block runs.  Before its first step: the
\* coroutine never starts, and nothing of its body runs.
HandlerCancel(t) ==
    /\ t \in DOMAIN handler /\ handler[t] \in {"created", "sleeping"}
    /\ LET a == tasks[t].assigned_agent IN
        IF handler[t] = "created"
        THEN UNCHANGED <<agents, tasks_failed, task_history>>
        ELSE /\ agents' = HandlerCleanup(CountOnAgent(agents, a, FALSE), a, t)
             /\ tasks_failed' = tasks_failed + 1
             /\ task_history' = Append(task_history,
                                       [task_id |-> t, agent_id |-> a, success |-> FALSE])
    /\ handler' = [handler EXCEPT ![t] = "done"]
    /\ last' = Did("handler_cancel", t, TRUE)
    /\ UNCHANGED <<coordination_mode, lifeVars, capability_registry, trust_scores, creating,
                   next_agent, taskVars, tasks_completed, now, missed, coordVars>>

----------------------------------------------------------------------------
(* Time *)

\* the clock advances
AdvanceTime(d) ==
    /\ now' = now + d
    /\ last' = Did("advance_time", d, TRUE)
    /\ UNCHANGED <<coordination_mode, lifeVars, agentVars, taskVars, runVars, missed, coordVars>>

----------------------------------------------------------------------------
(* Coordination of several agents: coordinate_agents *)

\* timeout=10.0 of asyncio.wait_for, in seconds
CoordinationWindow == 10

\* np.random.uniform(0.3, 0.9) and np.random.uniform(0.5, 0.95), in units of 1/Scale
ContributionBases == {300, 900}
ConfidenceBases == {500, 950}

\* the agent ids of list that are registered with status ACTIVE, in list order;
\* this variant takes every registered agent, whatever its status
AvailableAgentsRegistered(ag, list) ==
    SelectSeq(list, LAMBDA a : a \in DOMAIN ag)

\* the agent ids of list that are registered with status ACTIVE, in list order
AvailableAgents(ag, list) ==
    SelectSeq(list, LAMBDA a : a \in DOMAIN ag /\ ag[a].status = "active")

\* the state of a contribution call that has not woken from its sleep
Sleeping == [state |-> "sleeping", contribution |-> 0, confidence |-> 0]

\* what _get_agent_contribution returns for agent a after its sleep
AgentContribution(ag, a, contribution_base, confidence_base) ==
    LET performance_boost == (ag[a].success_rate * 200) \div Scale
    IN [state |-> "done",
        contribution |-> Min(Scale, contribution_base + performance_boost),
        confidence |-> Min(Scale, confidence_base + performance_boost)]

\* the entry of coordination_results for agent a, from the outcome of its call
ResultEntry(a, outcome) ==
    IF outcome.state = "done"
    THEN [agent_id |-> a, contribution |-> outcome.contribution,
          confidence |-> outcome.confidence, error |-> FALSE]
    ELSE [agent_id |-> a, contribution |-> 0, confidence |-> 0, error |-> TRUE]

\* the keys of a dict filled by assignments in the order of list: each id once, at
\* the place of its first occurrence
DictKeys(list) ==
    SelectSeq([i \in 1..Len(list) |->
                  IF \E j \in 1..(i - 1) : list[j] = list[i] THEN 0 ELSE list[i]],
              LAMBDA a : a # 0)

\* coordination_results after the loop over available_agents: per agent, the entry
\* of its last occurrence in the list
CoordinationResults(available, outcomes) ==
    LET keys == DictKeys(available)
        LastAt(a) == CHOOSE i \in 1..Len(available) :
                        /\ available[i] = a
                        /\ \A j \in (i + 1)..Len(available) : available[j] # a
    IN [k \in 1..Len(keys) |-> ResultEntry(keys[k], outcomes[LastAt(keys[k])])]

\* the sum of f[i] over i in 1..n
RECURSIVE SumTo(_, _)
SumTo(f, n) == IF n = 0 THEN 0 ELSE f[n] + SumTo(f, n - 1)

\* np.mean of a non-empty list of values
Mean(f) == SumTo(f, Len(f)) \div Len(f)

\* CombineCollaborative weighting by the confidence alone
CombineCollaborativeByConfidence(ag, results) ==
    LET n == Len(results)
        weight == [i \in 1..n |-> IF results[i].error THEN 0 ELSE results[i].confidence]
        weighted == [i \in 1..n |-> results[i].contribution * weight[i]]
        total_weight == SumTo(weight, n)
    IN IF total_weight > 0
       THEN SumTo(weighted, n) \div total_weight
       ELSE Mean([i \in 1..n |-> results[i].contribution])

\* combined_value of the collaborative mode: the average of the contributions
\* weighted by confidence * reliability_score over the entries without an error,
\* or the plain mean of all contributions when the weights sum to zero
CombineCollaborative(ag, results) ==
    LET n == Len(results)
        weight == [i \in 1..n |->
                     IF results[i].error THEN 0
                     ELSE (results[i].confidence * ag[results[i].agent_id].reliability_score)
                              \div Scale]
        weighted == [i \in 1..n |-> results[i].contribution * weight[i]]
        total_weight == SumTo(weight, n)
    IN IF total_weight > 0
       THEN SumTo(weighted, n) \div total_weight
       ELSE Mean([i \in 1..n |-> results[i].contribution])

\* CombineCompetitive taking the entry of the highest confidence
CombineCompetitiveByConfidence(results) ==
    LET valid == SelectSeq(results, LAMBDA r : ~r.error)
        Score(r) == r.confidence
        best == CHOOSE i \in 1..Len(valid) :
                   /\ \A j \in 1..Len(valid) : Score(valid[j]) <= Score(valid[i])
                   /\ \A j \in 1..(i - 1) : Score(valid[j]) < Score(valid[i])
    IN IF valid = <<>> THEN 0 ELSE valid[best].contribution

\* combined_value of the competitive mode: the contribution of the first entry
\* without an error whose contribution * confidence is the highest, 0 if none
CombineCompetitive(results) ==
    LET valid == SelectSeq(results, LAMBDA r : ~r.error)
        Score(r) == r.contribution * r.confidence
        best == CHOOSE i \in 1..Len(valid) :
                   /\ \A j \in 1..Len(valid) : Score(valid[j]) <= Score(valid[i])
                   /\ \A j \in 1..(i - 1) : Score(valid[j]) < Score(valid[i])
    IN IF valid = <<>> THEN 0 ELSE valid[best].contribution

\* combined_value of the hybrid mode: the two blended by the mean confidence
CombineHybrid(ag, results) ==
    LET collaborative_quality == Mean([i \in 1..Len(results) |-> results[i].confidence])
    IN (CombineCollaborative(ag, results) * collaborative_quality
        + CombineCompetitive(results) * (Scale - collaborative_quality)) \div Scale

\* _combine_coordination_results
CombineCoordinationResults(ag, results, mode) ==
    IF results = <<>>
    THEN [error |-> "No results to combine", combined_value |-> 0,
          individual_contributions |-> <<>>]
    ELSE [error |-> "",
          combined_value |-> CASE mode = "collaborative" -> CombineCollaborative(ag, results)
                               [] mode = "competitive" -> CombineCompetitive(results)
                               [] OTHER -> CombineHybrid(ag, results),
          individual_contributions |-> results]

\* a result dict that only carries an error
ErrorResult(message) ==
    [error |-> message, combined_value |-> 0, individual_contributions |-> <<>>]

\* a coordinate_agents call: its arguments, the agents it found available, when it
\* began to wait, the state of each contribution call it issued (one per entry of
\* available), and, once it has returned, the CoordinationResult
NewCoordination(agent_ids, mode, available) ==
    [agent_ids |-> agent_ids,
     coordination_mode |-> mode,
     available |-> available,
     started |-> now,
     calls |-> [i \in 1..Len(available) |-> Sleeping],
     returned |-> FALSE,
     participating_agents |-> <<>>,
     result |-> ErrorResult(""),
     timestamp |-> 0,
     success |-> FALSE]

\* the call returns a CoordinationResult
Returned(c, participating, result, success) ==
    [c EXCEPT !.returned = TRUE, !.participating_agents = participating,
              !.result = result, !.timestamp = now, !.success = success]

\* coordinate_agents, up to its return (no agent available) or up to its await
\* of the contributions
CoordinateAgents(agent_ids, mode) ==
    /\ coordination_events' = coordination_events + 1
    /\ LET id == next_coord
           available == AvailableAgents(agents, agent_ids)
           call == NewCoordination(agent_ids, mode, available)
       IN /\ coord' = DictSet(coord, id,
                         IF available = <<>>
                         THEN Returned(call, <<>>,
                                  ErrorResult("No available agents for coordination"), FALSE)
                         ELSE call)
          /\ last' = Did("coordinate_agents", id, available # <<>>)
    /\ next_coord' = next_coord + 1
    /\ UNCHANGED <<coordination_mode, lifeVars, agentVars, taskVars, runVars, coordination_history,
                   now, missed>>

\* _get_agent_contribution for the i-th available agent of call c, from the end of
\* its sleep: the contribution it returns, or the KeyError it raises when the agent
\* is no longer registered
GetAgentContribution(c, i, contribution_base, confidence_base) ==
    /\ c \in DOMAIN coord /\ ~coord[c].returned
    /\ i \in DOMAIN coord[c].calls /\ coord[c].calls[i].state = "sleeping"
    /\ LET a == coord[c].available[i]
           outcome == IF a \in DOMAIN agents
                      THEN AgentContribution(agents, a, contribution_base, confidence_base)
                      ELSE [Sleeping EXCEPT !.state = "raised"]
       IN coord' = [coord EXCEPT ![c].calls[i] = outcome]
    /\ last' = Did("get_agent_contribution", c, TRUE)
    /\ UNCHANGED <<coordination_mode, lifeVars, agentVars, taskVars, runVars, coordination_history,
                   coordination_events, next_coord, now, missed>>

\* some contribution call of c has not finished
Waiting(c) == \E i \in DOMAIN c.calls : c.calls[i].state = "sleeping"

\* a wait without a time limit: the timeout is never due
WindowNeverElapses(c, time) == FALSE

\* asyncio.wait_for's timeout is due
WindowElapsed(c, time) == time >= c.started + CoordinationWindow

\* coordinate_agents after asyncio.gather has every outcome: the results are
\* combined and the call returns with success
CoordinationDone(c) ==
    /\ c \in DOMAIN coord /\ ~coord[c].returned /\ ~Waiting(coord[c])
    /\ LET call == coord[c]
           coordination_results == CoordinationResults(call.available, call.calls)
           combined_result == CombineCoordinationResults(agents, coordination_results,
                                                         call.coordination_mode)
       IN coord' = [coord EXCEPT ![c] = Returned(call, call.available, combined_result, TRUE)]
    /\ coordination_history' = Append(coordination_history, c)
    /\ last' = Did("coordination_done", c, TRUE)
    /\ UNCHANGED <<coordination_mode, lifeVars, agentVars, taskVars, runVars, coordination_events,
                   next_coord, now, missed>>

\* coordinate_agents when the timeout fires with a contribution outstanding:
\* wait_for cancels the gather and with it the sleeping calls, and raises
\* TimeoutError; the except branch returns the error result
CoordinationTimeout(c) ==
    /\ c \in DOMAIN coord /\ ~coord[c].returned /\ Waiting(coord[c])
    /\ WindowElapsed(coord[c], now)
    /\ LET call == coord[c]
           cancelled == [i \in DOMAIN call.calls |->
                           IF call.calls[i].state = "sleeping"
                           THEN [call.calls[i] EXCEPT !.state = "cancelled"]
                           ELSE call.calls[i]]
       IN coord' = [coord EXCEPT ![c] =
                       Returned([call EXCEPT !.calls = cancelled], call.available,
                                ErrorResult("Coordination timeout"), FALSE)]
    /\ coordination_history' = Append(coordination_history, c)
    /\ last' = Did("coordination_timeout", c, FALSE)
    /\ UNCHANGED <<coordination_mode, lifeVars, agentVars, taskVars, runVars, coordination_events,
                   next_coord, now, missed>>

----------------------------------------------------------------------------
(* Agent lifecycle: initialize, _monitor_agents, _remove_agent, shutdown *)

\* seconds without a heartbeat after which _monitor_agents sets an agent to ERROR
HeartbeatTimeout == 300

\* the core agents of _initialize_core_agents (two of the five, each with the
\* capabilities the model uses)
CoreAgents == <<<<"decision_agent", {"X"}>>, <<"detection_agent", {"X", "Y"}>>>>

\* d without its key k: del d[k]
DictDel(d, k) == [x \in DOMAIN d \ {k} |-> d[x]]

\* the part of the orchestrator that _remove_agent reads and writes
World ==
    [agents |-> agents, capability_registry |-> capability_registry,
     trust_scores |-> trust_scores, tasks |-> tasks, task_queue |-> task_queue,
     next_task |-> next_task, pending_cycles |-> pending_cycles, missed |-> missed,
     raised |-> FALSE]

\* the first stretch of create_agent for each entry of list, starting at agent id
\* first: the world after the registrations
RECURSIVE RegisterAll(_, _, _)
RegisterAll(w, list, first) ==
    IF list = <<>> THEN w
    ELSE LET type == Head(list)[1]
             caps == Head(list)[2]
             registered ==
                 [w EXCEPT
                     !.agents = DictSet(@, first, NewAgentState(type, caps)),
                     !.capability_registry = RegisterCapabilities(@, caps, first),
                     !.trust_scores = SeedTrust(@, DOMAIN w.agents \cup {first}, first)]
         IN RegisterAll(registered, Tail(list), first + 1)

\* initialize, up to its wait for the core agents: every create_agent it gathers
\* has registered its agent and sleeps
InitializeBegin ==
    /\ LET n == Len(CoreAgents)
           w == RegisterAll(World, CoreAgents, next_agent)
           ids == next_agent..(next_agent + n - 1)
       IN /\ agents' = w.agents
          /\ capability_registry' = w.capability_registry
          /\ trust_scores' = w.trust_scores
          /\ creating' = creating \cup ids
          /\ next_agent' = next_agent + n
          /\ initializing' = initializing \cup {ids}
    /\ last' = Did("initialize", next_agent, TRUE)
    /\ UNCHANGED <<coordination_mode, taskVars, runVars, coordVars, is_running,
                   monitor_task, monitors, optimizers, shutting, now, missed>>

\* initialize, once its core agents are created: the monitor and the optimizer
\* are started
InitializeEnd(ids) ==
    /\ ids \in initializing /\ ids \cap creating = {}
    /\ initializing' = initializing \ {ids}
    /\ is_running' = TRUE
    /\ monitor_task' = monitor_task + 1
    /\ monitors' = monitors \cup {monitor_task + 1}
    /\ optimizers' = optimizers + 1
    /\ last' = Did("initialize_done", monitor_task + 1, TRUE)
    /\ UNCHANGED <<coordination_mode, agentVars, taskVars, runVars, coordVars, shutting,
                   now, missed>>

\* Resubmit passing on the requirements of each task
RECURSIVE ResubmitWithRequirements(_, _)
ResubmitWithRequirements(w, items) ==
    IF items = <<>> THEN w
    ELSE LET id == w.next_task
             old == w.tasks[Head(items)]
             tk == DictSet(w.tasks, id, NewTask(old.requirements, old.priority, NoDeadline))
             submitted == [w EXCEPT !.tasks = tk,
                                    !.task_queue = SortQueue(tk, Append(@, id)),
                                    !.next_task = @ + 1,
                                    !.pending_cycles = @ + 1,
                                    !.missed = DictSet(@, id, 0)]
         IN ResubmitWithRequirements(submitted, Tail(items))

\* _remove_agent's resubmission of the tasks in a local queue: submit_task with
\* requirements=[] and the item's input data and priority, one task at a time; a
\* rejected call raises ValueError and ends the loop
RECURSIVE Resubmit(_, _)
Resubmit(w, items) ==
    IF items = <<>> THEN w
    ELSE IF ~ValidSubmission({}, TRUE) THEN [w EXCEPT !.raised = TRUE]
    ELSE LET id == w.next_task
             tk == DictSet(w.tasks, id, NewTask({}, w.tasks[Head(items)].priority, NoDeadline))
             submitted == [w EXCEPT !.tasks = tk,
                                    !.task_queue = SortQueue(tk, Append(@, id)),
                                    !.next_task = @ + 1,
                                    !.pending_cycles = @ + 1,
                                    !.missed = DictSet(@, id, 0)]
         IN Resubmit(submitted, Tail(items))

\* RemoveAgentFrom that leaves the capability registry as it is
RemoveAgentKeepingIndex(w, id) ==
    IF id \notin DOMAIN w.agents THEN w
    ELSE LET r == Resubmit(w, w.agents[id].task_queue)
         IN IF r.raised THEN r
            ELSE [r EXCEPT
                    !.trust_scores =
                        [p \in {q \in DOMAIN @ : id \notin {q[1], q[2]}} |-> @[p]],
                    !.agents = DictDel(@, id)]

\* RemoveAgentFrom that leaves the trust ledger as it is
RemoveAgentKeepingTrust(w, id) ==
    IF id \notin DOMAIN w.agents THEN w
    ELSE LET r == Resubmit(w, w.agents[id].task_queue)
         IN IF r.raised THEN r
            ELSE [r EXCEPT
                    !.capability_registry =
                        [c \in DOMAIN @ |-> IF c \in r.agents[id].capabilities
                                            THEN RemoveFirst(@[c], id) ELSE @[c]],
                    !.agents = DictDel(@, id)]

\* _remove_agent: the world after it, raised if it ended with an exception
RemoveAgentFrom(w, id) ==
    IF id \notin DOMAIN w.agents THEN w
    ELSE LET r == Resubmit(w, w.agents[id].task_queue)
         IN IF r.raised THEN r
            ELSE [r EXCEPT
                    !.capability_registry =
                        [c \in DOMAIN @ |-> IF c \in r.agents[id].capabilities
                                            THEN RemoveFirst(@[c], id) ELSE @[c]],
                    !.trust_scores =
                        [p \in {q \in DOMAIN @ : id \notin {q[1], q[2]}} |-> @[p]],
                    !.agents = DictDel(@, id)]

\* RemoveTerminated going on with the next agent after an exception
RECURSIVE RemoveTerminatedEach(_, _)
RemoveTerminatedEach(w, ids) ==
    IF ids = <<>> THEN w
    ELSE LET r == RemoveAgentFrom([w EXCEPT !.raised = FALSE], Head(ids))
             rest == RemoveTerminatedEach(r, Tail(ids))
         IN [rest EXCEPT !.raised = w.raised \/ r.raised \/ rest.raised]

\* the removals of a monitor tick, in the order of agents_to_remove; the first
\* exception ends them
RECURSIVE RemoveTerminated(_, _)
RemoveTerminated(w, ids) ==
    IF ids = <<>> \/ w.raised THEN w
    ELSE RemoveTerminated(RemoveAgentFrom(w, Head(ids)), Tail(ids))

\* one agent as a monitor tick leaves it, with the heartbeat refreshed before its
\* age is tested
ExamineRefreshFirst(agent, time) ==
    LET refreshed == IF agent.status = "active"
                     THEN [agent EXCEPT !.last_heartbeat = time]
                     ELSE agent
    IN IF time - refreshed.last_heartbeat > HeartbeatTimeout
       THEN [refreshed EXCEPT !.status = "error"]
       ELSE refreshed

\* one agent as a monitor tick leaves it: ERROR when its heartbeat is too old, and
\* a fresh heartbeat when it is (still) ACTIVE
Examine(agent, time) ==
    LET checked == IF time - agent.last_heartbeat > HeartbeatTimeout
                   THEN [agent EXCEPT !.status = "error"]
                   ELSE agent
    IN IF checked.status = "active" THEN [checked EXCEPT !.last_heartbeat = time]
       ELSE checked

\* agents_to_remove of a monitor tick: the ids whose status is TERMINATED after the
\* examination, in the order of the dict (the order of creation)
AgentsToRemove(examined) ==
    SelectSeq([i \in 1..(next_agent - 1) |-> i],
              LAMBDA a : a \in DOMAIN examined /\ examined[a].status = "terminated")

\* one iteration of the loop of _monitor_agents task m, from the test of
\* is_running to the next sleep.  An exception of _remove_agent ends the removals
\* and is caught by the loop.
MonitorTick(m) ==
    /\ m \in monitors
    /\ IF ~is_running
       THEN /\ monitors' = monitors \ {m}
            /\ last' = Did("monitor_exit", m, TRUE)
            /\ UNCHANGED <<agentVars, taskVars, missed>>
       ELSE LET examined == [a \in DOMAIN agents |-> Examine(agents[a], now)]
                w == RemoveTerminated([World EXCEPT !.agents = examined],
                                      AgentsToRemove(examined))
            IN /\ agents' = w.agents
               /\ capability_registry' = w.capability_registry
               /\ trust_scores' = w.trust_scores
               /\ tasks' = w.tasks
               /\ task_queue' = w.task_queue
               /\ next_task' = w.next_task
               /\ pending_cycles' = w.pending_cycles
               /\ missed' = w.missed
               /\ last' = [Did("monitor_tick", m, ~w.raised) EXCEPT
                              !.log = [a \in DOMAIN agents |-> agents[a].status]]
               /\ UNCHANGED <<monitors, creating, next_agent>>
    /\ UNCHANGED <<coordination_mode, runVars, coordVars, is_running, initializing,
                   monitor_task, optimizers, shutting, now>>

\* seconds a CoordinationResult is kept: timedelta(hours=24)
HistoryRetention == 86400

\* one iteration of the loop of an _optimize_system_performance task: the
\* coordination results older than the retention are dropped
OptimizeTick ==
    /\ optimizers > 0
    /\ IF ~is_running
       THEN /\ optimizers' = optimizers - 1
            /\ UNCHANGED coordination_history
       ELSE /\ coordination_history' =
                   SelectSeq(coordination_history,
                             LAMBDA c : coord[c].timestamp > now - HistoryRetention)
            /\ UNCHANGED optimizers
    /\ last' = Did("optimize_tick", 0, is_running)
    /\ UNCHANGED <<coordination_mode, agentVars, taskVars, runVars, coord,
                   coordination_events, next_coord, is_running, initializing,
                   monitor_task, monitors, shutting, now, missed>>

\* every agent of the registry set to TERMINATED
Terminated(ag) == [a \in DOMAIN ag |-> [ag[a] EXCEPT !.status = "terminated"]]

\* shutdown, up to its wait for the cancelled monitor task; when there is no
\* monitor task, or the task has ended already, nothing suspends and shutdown
\* runs to its end
ShutdownBegin ==
    /\ is_running' = FALSE
    /\ monitors' = monitors \ {monitor_task}
    /\ IF monitor_task \in monitors
       THEN /\ shutting' = shutting + 1
            /\ last' = Did("shutdown", 0, TRUE)
            /\ UNCHANGED agents
       ELSE /\ agents' = Terminated(agents)
            /\ last' = Did("shutdown_done", 0, TRUE)
            /\ UNCHANGED shutting
    /\ UNCHANGED <<coordination_mode, capability_registry, trust_scores, creating,
                   next_agent, taskVars, runVars, coordVars, initializing, monitor_task,
                   optimizers, now, missed>>

\* shutdown, from the end of the monitor task to its return
ShutdownEnd ==
    /\ shutting > 0
    /\ shutting' = shutting - 1
    /\ agents' = Terminated(agents)
    /\ last' = Did("shutdown_done", 0, TRUE)
    /\ UNCHANGED <<coordination_mode, capability_registry, trust_scores, creating,
                   next_agent, taskVars, runVars, coordVars, is_running, initializing,
                   monitor_task, monitors, optimizers, now, missed>>

----------------------------------------------------------------------------
(* The orchestrator *)

\* MultiAgentOrchestrator.__init__
Init ==
    /\ coordination_mode \in Modes
    /\ agents = <<>>
    /\ capability_registry = <<>>
    /\ trust_scores = <<>>
    /\ creating = {}
    /\ next_agent = 1
    /\ tasks = <<>>
    /\ task_queue = <<>>
    /\ next_task = 1
    /\ pending_cycles = 0
    /\ handler = <<>>
    /\ tasks_completed = 0
    /\ tasks_failed = 0
    /\ task_history = <<>>
    /\ coord = <<>>
    /\ coordination_history = <<>>
    /\ coordination_events = 0
    /\ next_coord = 1
    /\ is_running = FALSE
    /\ initializing = {}
    /\ monitor_task = 0
    /\ monitors = {}
    /\ optimizers = 0
    /\ shutting = 0
    /\ now = 1
    /\ missed = <<>>
    /\ last = Did("init", 0, TRUE)

\* a submission the model may make: within the bound on task ids, or rejected
\* (a rejected call creates no task)
MaySubmit(max, in) == next_task <= max \/ ~ValidSubmission(in[1], in[2])

\* the calls of create_agent, at most max of them, and their completions
Creations(inputs, max) ==
    \/ \E in \in inputs : next_agent <= max /\ CreateAgent(in[1], in[2])
    \/ \E id \in creating : CreateAgentDone(id)

\* the calls of submit_task
Submissions(inputs, max) ==
    \E in \in inputs : MaySubmit(max, in) /\ SubmitTask(in[1], in[2], in[3], in[4])

\* the steps of the dispatched handlers
Handlers ==
    \/ \E t \in DOMAIN handler : HandlerStart(t)
    \/ \E t \in DOMAIN handler, success \in BOOLEAN, pt \in ProcessingTimes :
          HandlerFinish(t, success, pt)

\* the cancellation of a handler by its environment
Cancellations == \E t \in DOMAIN handler : HandlerCancel(t)

\* the passing of time, up to max
Clock(steps, max) == \E d \in steps : now + d <= max /\ AdvanceTime(d)

Next ==
    \/ Creations(AgentInputs, MaxAgents)
    \/ Submissions(TaskInputs, MaxTasks)
    \/ AssignCycle
    \/ Handlers
    \/ Cancellations

Spec == Init /\ [][Next]_vars

(* The same with one agent type and one requirement, and tasks enough to fill an
   agent's local queue *)

MaxCapacityAgents == 1
MaxCapacityTasks == 4
CapacityAgentInputs == {<<"decision_agent", {"X"}>>}
CapacityTaskInputs ==
    {<<{"X"}, TRUE, 0, NoDeadline>>, <<{"X"}, TRUE, 11, NoDeadline>>}

NextCapacity ==
    \/ Creations(CapacityAgentInputs, MaxCapacityAgents)
    \/ Submissions(CapacityTaskInputs, MaxCapacityTasks)
    \/ AssignCycle
    \/ Handlers

SpecCapacity == Init /\ [][NextCapacity]_vars

(* The same with the clock advancing, so that deadlines pass *)

NextClock ==
    \/ Creations(CapacityAgentInputs, MaxCapacityAgents)
    \/ Submissions(TaskInputs, MaxTasks)
    \/ AssignCycle
    \/ Handlers
    \/ Clock(TimeSteps, MaxTime)

SpecClock == Init /\ [][NextClock]_vars

(* The assignment cycle with a queue longer than one batch: first as many tasks as
   a batch holds that no agent can take (high priority, no deadline), then tasks
   the one agent can take (low priority).  Submissions made by one coroutine
   without a suspension (a loop of "await submit_task") are followed by the cycles
   they trigger. *)

MaxStarveTasks == 12
BlockerInputs == {<<{"Z"}, TRUE, 11, NoDeadline>>}
VictimInputs == {<<{"X"}, TRUE, 0, NoDeadline>>}

NextStarve ==
    \/ Creations(CapacityAgentInputs, MaxCapacityAgents)
    \/ next_task <= MaxAssignmentsPerCycle /\ Submissions(BlockerInputs, MaxStarveTasks)
    \/ next_task > MaxAssignmentsPerCycle /\ Submissions(VictimInputs, MaxStarveTasks)
    \/ AssignCycle

SpecStarve == Init /\ [][NextStarve]_vars

(* Coordination: agents are created, coordinate_agents is called with lists of
   candidates (registered and Active, registered and still initializing, or
   unknown), the contribution calls finish or stay asleep, and the clock runs
   past the coordination window *)

MaxCoordAgents == 2
MaxCoords == 1
MaxCoordTime == 21
CoordTimeSteps == {10}
\* agent_ids of coordinate_agents
CandidateLists == {<<1>>, <<2>>, <<3>>, <<1, 2>>, <<2, 1>>, <<1, 1>>}

\* the calls of coordinate_agents, at most max of them, begun early enough for the
\* coordination window to end by time until
Coordinations(lists, max, until) ==
    \E agent_ids \in lists, mode \in Modes :
        /\ next_coord <= max
        /\ now + CoordinationWindow <= until
        /\ CoordinateAgents(agent_ids, mode)

\* the contribution calls that wake from their sleep
Contributions ==
    \E c \in DOMAIN coord, i \in 1..MaxCoordAgents,
       contribution_base \in ContributionBases, confidence_base \in ConfidenceBases :
        GetAgentContribution(c, i, contribution_base, confidence_base)

NextCoord ==
    \/ Creations(AgentInputs, MaxCoordAgents)
    \/ Coordinations(CandidateLists, MaxCoords, MaxCoordTime)
    \/ Contributions
    \/ \E c \in DOMAIN coord : CoordinationDone(c)
    \/ \E c \in DOMAIN coord : CoordinationTimeout(c)
    \/ Clock(CoordTimeSteps, MaxCoordTime)

\* the constructor's coordination_mode plays no part in coordinate_agents
InitCoord == Init /\ coordination_mode = "hybrid"

SpecCoord == InitCoord /\ [][NextCoord]_vars

(* The same where time passes and the event loop runs what is ready: the clock
   and the two continuations of coordinate_agents are weakly fair.  Nothing makes
   a contribution call wake up. *)

SpecCoordLive ==
    /\ SpecCoord
    /\ WF_vars(Clock(CoordTimeSteps, MaxCoordTime))
    /\ \A c \in 1..MaxCoords :
          WF_vars(CoordinationDone(c)) /\ WF_vars(CoordinationTimeout(c))


(* Coordination with the optimizer running: initialize starts it, and the clock
   can run past the retention of the coordination history *)

MaxInitializations == 1
MaxHistoryTime == 129601
HistoryTimeSteps == {43200}

\* the calls of initialize, at most max of them, and their completions
Initializations(max) ==
    \/ Cardinality(initializing) + monitor_task < max /\ InitializeBegin
    \/ \E id \in UNION initializing : CreateAgentDone(id)
    \/ \E ids \in initializing : InitializeEnd(ids)

NextHistory ==
    \/ Initializations(MaxInitializations)
    \/ Coordinations(CandidateLists, MaxCoords, MaxHistoryTime)
    \/ Contributions
    \/ \E c \in DOMAIN coord : CoordinationDone(c)
    \/ \E c \in DOMAIN coord : CoordinationTimeout(c)
    \/ OptimizeTick
    \/ Clock(HistoryTimeSteps, MaxHistoryTime)

SpecHistory == InitCoord /\ [][NextHistory]_vars

(* The lifecycle: the system is initialized, shut down and initialized again, the
   monitor ticks, tasks are submitted, assigned and handled, and the clock runs
   past the heartbeat timeout *)

MaxLifeInitializations == 2
MaxLifeTasks == 1
MaxLifeTime == 303
LifeTimeSteps == {301}
LifeTaskInputs == {<<{"X"}, TRUE, 5, NoDeadline>>}

\* the calls of shutdown and their completions
Shutdowns ==
    \/ ShutdownBegin
    \/ ShutdownEnd

NextLife ==
    \/ Initializations(MaxLifeInitializations)
    \/ Shutdowns
    \/ \E m \in monitors : MonitorTick(m)
    \/ Submissions(LifeTaskInputs, MaxLifeTasks)
    \/ AssignCycle
    \/ Handlers
    \/ Cancellations
    \/ Clock(LifeTimeSteps, MaxLifeTime)

SpecLife == InitCoord /\ [][NextLife]_vars

(* The lifecycle without tasks, where time passes and the event loop runs what
   is ready: the clock, the monitor loops and the continuations of the calls in
   progress are weakly fair.  Nothing makes a caller call initialize or
   shutdown. *)

NextMonitor ==
    \/ Initializations(MaxLifeInitializations)
    \/ Shutdowns
    \/ \E m \in monitors : MonitorTick(m)
    \/ Clock(LifeTimeSteps, MaxLifeTime)

SpecMonitorLive ==
    /\ InitCoord /\ [][NextMonitor]_vars
    /\ WF_vars(Clock(LifeTimeSteps, MaxLifeTime))
    /\ WF_vars(\E m \in monitors : MonitorTick(m))
    /\ WF_vars(\E id \in UNION initializing : CreateAgentDone(id))
    /\ WF_vars(\E ids \in initializing : InitializeEnd(ids))
    /\ WF_vars(ShutdownEnd)

(* Many tasks handled one after the other by the one agent of two that can take
   them, so that the trust between the two reaches its upper limit: a task is
   submitted when the one before has been dealt with *)

MaxTrustAgents == 2
MaxTrustTasks == 11
FirstTrustAgent == {<<"decision_agent", {"X"}>>}
OtherTrustAgents == {<<"detection_agent", {"Y"}>>}
TrustTaskInputs == {<<{"Y"}, TRUE, 5, NoDeadline>>}

\* no run of _assign_tasks is due and every handler has ended
Idle ==
    /\ pending_cycles = 0
    /\ task_queue = <<>>
    /\ \A t \in DOMAIN handler : handler[t] = "done"

NextTrust ==
    \/ Creations(IF next_agent = 1 THEN FirstTrustAgent ELSE OtherTrustAgents,
                 MaxTrustAgents)
    \/ Idle /\ Submissions(TrustTaskInputs, MaxTrustTasks)
    \/ AssignCycle
    \/ Handlers

SpecTrust == InitCoord /\ [][NextTrust]_vars

(* The hybrid strategy: two agents that both hold the requirement, and tasks of
   low, medium and high priority, one of them with more than three requirements *)

MaxHybridTasks == 2
HybridTaskInputs ==
    {<<{"X"}, TRUE, 0, NoDeadline>>,
     <<{"X"}, TRUE, 5, NoDeadline>>,
     <<{"X"}, TRUE, 11, NoDeadline>>,
     <<{"X", "P", "Q", "R"}, TRUE, 0, NoDeadline>>}

NextHybrid ==
    \/ Creations(AgentInputs, MaxAgents)
    \/ Submissions(HybridTaskInputs, MaxHybridTasks)
    \/ AssignCycle

SpecHybrid == InitCoord /\ [][NextHybrid]_vars

(* The combination of the contributions alone: two agents, one call of
   coordinate_agents for both of them in each mode, and no timeout *)

CombineCandidateLists == {<<1, 2>>, <<2, 1>>}

NextCombine ==
    \/ Creations(AgentInputs, MaxCoordAgents)
    \/ Coordinations(CombineCandidateLists, MaxCoords, MaxCoordTime)
    \/ Contributions
    \/ \E c \in DOMAIN coord : CoordinationDone(c)

SpecCombine == InitCoord /\ [][NextCombine]_vars

----------------------------------------------------------------------------
(* The claims *)

\* the agents whose local queue holds task t
HoldersOf(t) == {a \in DOMAIN agents : t \in Range(agents[a].task_queue)}

\* how often t occurs in the list s
Occurrences(s, t) == Cardinality({i \in 1..Len(s) : s[i] = t})

\* C1: no task id is in the local queues of two different agents at the same time
\* (nor twice in one), and the agent holding a task is the one agent recorded as
\* its assignee.
C1_NoDoubleAssignment ==
    \A t \in DOMAIN tasks :
        /\ Cardinality(HoldersOf(t)) <= 1
        /\ \A a \in HoldersOf(t) :
              /\ tasks[t].assigned_agent = a
              /\ Occurrences(agents[a].task_queue, t) = 1

\* two agents hold one task each, after several submissions and cycles
C1_Witness ==
    \E a, b \in DOMAIN agents :
        /\ a # b
        /\ agents[a].task_queue # <<>>
        /\ agents[b].task_queue # <<>>
        /\ pending_cycles = 0

\* C2: the local queue of every registered agent is never longer than the
\* max_concurrent_tasks of its configuration.
C2_QueueWithinCapacity ==
    \A a \in DOMAIN agents : Len(agents[a].task_queue) <= MaxConcurrentTasks(agents, a)

\* an agent is full after a cycle, and a task it could otherwise take waits
C2_Witness ==
    /\ last.op = "assign_tasks"
    /\ \E a \in DOMAIN agents :
          /\ Len(agents[a].task_queue) = MaxConcurrentTasks(agents, a)
          /\ \E t \in Range(task_queue) :
                /\ tasks[t].status = "pending"
                /\ a \in Candidates(capability_registry, tasks[t])

\* the runs of _assign_tasks a scheduler that always examines the whole queue, batch
\* by batch, needs to reach the last of the tasks
CyclesToReachAll ==
    (MaxStarveTasks + MaxAssignmentsPerCycle - 1) \div MaxAssignmentsPerCycle

\* C3: a pending task for which a suitable agent (active, below capacity, reliable,
\* holding a required capability) is left is assigned within a bounded number of
\* runs of _assign_tasks: no more runs than it takes to go through the queue once
\* pass it by.
C3_NoStarvation ==
    \A t \in DOMAIN missed : missed[t] <= CyclesToReachAll

\* C4: a submit_task call with an empty requirements list or an empty input creates
\* no task, leaves the global queue and every local queue as they were, and
\* triggers no assignment cycle.
C4_RejectedSubmissionChangesNothing ==
    [][(last'.op = "submit_task" /\ ~last'.valid) =>
           /\ last'.id = 0
           /\ tasks' = tasks
           /\ task_queue' = task_queue
           /\ next_task' = next_task
           /\ pending_cycles' = pending_cycles
           /\ agents' = agents
           /\ handler' = handler]_vars

\* a call was rejected while the queue held a task and an agent was at work
C4_Witness ==
    /\ last.op = "submit_task" /\ ~last.valid
    /\ task_queue # <<>>
    /\ \E a \in DOMAIN agents : agents[a].task_queue # <<>>

\* C5: every task has a priority in [1,10]; a priority passed below 1 is stored
\* as 1, one above 10 as 10, and any other as it is.
C5_PriorityClamped ==
    /\ \A t \in DOMAIN tasks : tasks[t].priority >= 1 /\ tasks[t].priority <= 10
    /\ (last.op = "submit_task" /\ last.id # 0) =>
          tasks[last.id].priority =
              (IF last.arg < 1 THEN 1 ELSE IF last.arg > 10 THEN 10 ELSE last.arg)

\* the queue holds a task submitted with priority 0 and one submitted with 11
C5_Witness ==
    /\ last.op = "submit_task" /\ last.arg = 0 /\ last.id \in Range(task_queue)
    /\ \E t \in Range(task_queue) : tasks[t].priority = 10

NoneFound == {i \in 1..Len(last.log) : ~last.log[i].raised /\ last.log[i].suitable = {}}

\* C7: a pending task examined by _assign_tasks with an empty suitable-agent set is
\* marked expired and removed from the queue when its deadline has passed, and stays
\* pending in the queue otherwise; an expired task is in no queue, has no assignee
\* and is not examined again.
C7_ExpiredOrLeftPending ==
    /\ [](\A i \in NoneFound :
            LET t == last.log[i].task IN
            IF tasks[t].deadline.has /\ tasks[t].deadline.at < now
            THEN tasks[t].status = "expired" /\ t \notin Range(task_queue)
            ELSE tasks[t].status = "pending" /\ t \in Range(task_queue))
    /\ [][\A t \in DOMAIN tasks :
            tasks[t].status = "expired" =>
                /\ tasks'[t] = tasks[t]
                /\ tasks[t].assigned_agent = 0
                /\ t \notin Range(task_queue')
                /\ HoldersOf(t)' = {}
                /\ \A i \in 1..Len(last'.log) : last'.log[i].task # t]_vars

\* one cycle expired a task and left another pending, and a later cycle ran
C7_Witness ==
    /\ last.op = "assign_tasks"
    /\ \E t \in DOMAIN tasks : tasks[t].status = "expired"
    /\ \E i \in NoneFound : tasks[last.log[i].task].status = "pending"

\* the calls of coordinate_agents that returned after the coordination window
\* ended with a contribution call still asleep
TimedOut == {c \in DOMAIN coord :
                coord[c].returned
                /\ \E i \in DOMAIN coord[c].calls : coord[c].calls[i].state = "cancelled"}

\* C8: when a contribution call has not completed at the end of the coordination
\* window, coordinate_agents returns with success a combined result in which the
\* late agent is an entry with contribution 0 and confidence 0.
C8_TimeoutStillCombines ==
    \A c \in TimedOut :
        /\ coord[c].success
        /\ coord[c].result.error = ""
        /\ \A i \in DOMAIN coord[c].calls :
              coord[c].calls[i].state = "cancelled"
              => \E k \in DOMAIN coord[c].result.individual_contributions :
                    LET entry == coord[c].result.individual_contributions[k]
                    IN /\ entry.agent_id = coord[c].available[i]
                       /\ entry.contribution = 0
                       /\ entry.confidence = 0

\* C9: every call of coordinate_agents eventually returns a CoordinationResult,
\* also when a contribution call never completes.
C9_CoordinationReturns ==
    \A c \in 1..MaxCoords :
        (c \in DOMAIN coord) ~> (c \in DOMAIN coord /\ coord[c].returned)

\* a call returned although one of its contribution calls never completed
C9_Witness ==
    \E c \in DOMAIN coord :
        /\ coord[c].returned
        /\ now >= coord[c].started + CoordinationWindow
        /\ \E i \in DOMAIN coord[c].calls : coord[c].calls[i].state # "done"

\* C10: a call of coordinate_agents with no candidate that is a registered agent
\* with status ACTIVE returns at once a result with success false and no
\* participating agents, and issues no contribution call.
C10_NoAvailableAgentFails ==
    [][(/\ last'.op = "coordinate_agents"
        /\ LET agent_ids == coord'[last'.id].agent_ids
           IN \A i \in DOMAIN agent_ids :
                 ~(agent_ids[i] \in DOMAIN agents /\ agents[agent_ids[i]].status = "active"))
       => LET call == coord'[last'.id]
          IN /\ call.returned
             /\ ~call.success
             /\ call.participating_agents = <<>>
             /\ call.calls = <<>>
             /\ call.result.error = "No available agents for coordination"]_vars

\* a call whose candidate is a registered agent that is still initializing failed
C10_Witness ==
    /\ last.op = "coordinate_agents"
    /\ LET call == coord[last.id]
       IN /\ call.returned /\ ~call.success
          /\ \E i \in DOMAIN call.agent_ids :
                /\ call.agent_ids[i] \in DOMAIN agents
                /\ agents[call.agent_ids[i]].status = "initializing"

\* C11: every call of coordinate_agents, whatever its outcome, appends exactly one
\* CoordinationResult to the coordination history: the step in which a call
\* returns appends the call's result and nothing else.
C11_EveryOutcomeAppended ==
    [][\A c \in DOMAIN coord' :
          (coord'[c].returned /\ ~(c \in DOMAIN coord /\ coord[c].returned))
          => coordination_history' = Append(coordination_history, c)]_vars

\* the agents a monitor tick finds TERMINATED with a heartbeat that is not too old
FreshTerminated ==
    {a \in DOMAIN agents :
        agents[a].status = "terminated" /\ now - agents[a].last_heartbeat <= HeartbeatTimeout}

\* C12: _remove_agent on a registered agent removes the agent from every entry of
\* the capability registry, deletes every trust edge that names it, deletes its
\* record, and puts a task into the global queue for each task of its local
\* queue.  (The first agent a monitor tick removes is the terminated agent with
\* the least id.)
C12_RemoveAgentRemovesAndRequeues ==
    [][(last'.op = "monitor_tick" /\ FreshTerminated # {})
       => LET id == CHOOSE a \in FreshTerminated : \A b \in FreshTerminated : a <= b
          IN /\ id \notin DOMAIN agents'
             /\ \A c \in DOMAIN capability_registry' : id \notin Range(capability_registry'[c])
             /\ \A p \in DOMAIN trust_scores' : id \notin {p[1], p[2]}
             /\ Len(task_queue') >= Len(task_queue) + Len(agents[id].task_queue)]_vars

\* C13: after a monitor tick no agent that was TERMINATED when the tick began is
\* registered.
C13_TickRemovesTerminated ==
    [][last'.op = "monitor_tick"
       => \A a \in DOMAIN agents :
             agents[a].status = "terminated" => a \notin DOMAIN agents']_vars

\* a monitor loop is running
MonitorRunning == is_running /\ monitors # {}

\* C14: while the monitor keeps running, every agent that is set to ERROR is
\* eventually removed from the registry.
C14_ErrorAgentIsRemoved ==
    \A a \in 1..(MaxLifeInitializations * Len(CoreAgents)) :
        (MonitorRunning /\ a \in DOMAIN agents /\ agents[a].status = "error")
        ~> (~MonitorRunning \/ a \notin DOMAIN agents)

\* C15: after a monitor tick every agent that was ACTIVE with a heartbeat more
\* than 300 seconds old when the tick began has status ERROR.
C15_StaleActiveBecomesError ==
    [][last'.op = "monitor_tick"
       => \A a \in DOMAIN agents :
             (agents[a].status = "active" /\ now - agents[a].last_heartbeat > 300)
             => (a \in DOMAIN agents' /\ agents'[a].status = "error")]_vars

\* a tick found an ACTIVE agent with a heartbeat too old and set it to ERROR
C15_Witness ==
    /\ last.op = "monitor_tick"
    /\ \E a \in DOMAIN agents :
          /\ last.log[a] = "active"
          /\ agents[a].status = "error"
          /\ now - agents[a].last_heartbeat > 300

\* C16: once shutdown has returned, the next step is no monitor tick, and unless
\* it is a new call of initialize every registered agent is TERMINATED after it.
C16_ShutdownIsFinal ==
    [][(last.op = "shutdown_done" /\ last'.op # "initialize")
       => /\ last'.op # "monitor_tick"
          /\ \A a \in DOMAIN agents' : agents'[a].status = "terminated"]_vars

\* C17: every trust edge has a score in [0.1, 1.0] (2 to 20 twentieths).
C17_TrustWithinLimits ==
    \A p \in DOMAIN trust_scores : trust_scores[p] >= 2 /\ trust_scores[p] <= 20

\* after more successes than steps from the initial score to the limit, an edge
\* is at the upper limit
C17_Witness ==
    /\ tasks_completed > 10
    /\ \E p \in DOMAIN trust_scores : trust_scores[p] = 20

\* the step records the end of a handler in the task history
Completes == Len(task_history') = Len(task_history) + 1

\* C18: when a task of agent A completes, every trust edge that touches A changes
\* by +0.05 on success and by -0.1 on failure, within [0.1, 1.0], and no other
\* edge changes.
C18_CompletionShiftsTrust ==
    [][Completes
       => LET done == task_history'[Len(task_history')]
              change == IF done.success THEN 1 ELSE 0 - 2
          IN /\ DOMAIN trust_scores' = DOMAIN trust_scores
             /\ \A p \in DOMAIN trust_scores :
                   trust_scores'[p] =
                       IF done.agent_id \in {p[1], p[2]}
                       THEN Max(2, Min(20, trust_scores[p] + change))
                       ELSE trust_scores[p]]_vars

\* C19 as stated: when a task completes with success, the reliability_score of
\* its agent is strictly greater than before, and at most 1.0.
C19_ReliabilityStrictlyIncreases ==
    [][(last'.op = "handler_finish" /\ last'.valid)
       => LET a == tasks[last'.id].assigned_agent
          IN a \in DOMAIN agents
             => /\ agents'[a].reliability_score > agents[a].reliability_score
                /\ agents'[a].reliability_score <= Scale]_vars

\* C19 as amended: when a task completes with success, the reliability_score of
\* its agent is not lower than before, and at most 1.0.
C19_ReliabilityDoesNotDecrease ==
    [][(last'.op = "handler_finish" /\ last'.valid)
       => LET a == tasks[last'.id].assigned_agent
          IN a \in DOMAIN agents
             => /\ agents'[a].reliability_score >= agents[a].reliability_score
                /\ agents'[a].reliability_score <= Scale]_vars

\* a task has completed with success on an agent that is registered
C19_Witness ==
    /\ last.op = "handler_finish" /\ last.valid
    /\ tasks[last.id].assigned_agent \in DOMAIN agents
    /\ agents[tasks[last.id].assigned_agent].completed_tasks > 0

\* C20: every entry of the capability registry holds exactly the registered agents
\* that have the capability, and every capability of a registered agent has an
\* entry.
C20_IndexMatchesAgents ==
    /\ \A c \in DOMAIN capability_registry :
          Range(capability_registry[c]) = {a \in DOMAIN agents : c \in agents[a].capabilities}
    /\ \A a \in DOMAIN agents : agents[a].capabilities \subseteq DOMAIN capability_registry

\* an agent has been removed while another is registered
C20_Witness ==
    /\ \E a \in 1..(next_agent - 1) : a \notin DOMAIN agents
    /\ DOMAIN agents # {}

\* C21: when a task's execution fails, the failure is counted once in the system
\* counter and on the agent, it lowers the agent's success_rate and
\* reliability_score and the trust edges that touch the agent, and the task is in
\* no queue afterwards.
C21_FailureIsRecordedEverywhere ==
    [][(Completes /\ ~task_history'[Len(task_history')].success)
       => LET done == task_history'[Len(task_history')]
              a == done.agent_id
          IN /\ tasks_failed' = tasks_failed + 1
             /\ tasks_completed' = tasks_completed
             /\ done.task_id \notin Range(task_queue')
             /\ \A b \in DOMAIN agents' : done.task_id \notin Range(agents'[b].task_queue)
             /\ a \in DOMAIN agents
                => /\ agents'[a].failed_tasks = agents[a].failed_tasks + 1
                   /\ agents'[a].success_rate < agents[a].success_rate
                   /\ agents'[a].reliability_score < agents[a].reliability_score
                   /\ \A p \in DOMAIN trust_scores :
                         a \in {p[1], p[2]}
                         => trust_scores'[p] = Max(2, trust_scores[p] - 2)]_vars

\* C22: when a handler ends, its task is not in the agent's local queue, and the
\* agent's active-task counter has the value it had before the handler started:
\* one less than now if the handler had started, the same if it had not.
C22_HandlerCleansUp ==
    [][\A t \in DOMAIN handler :
          (handler[t] # "done" /\ handler'[t] = "done")
          => LET a == tasks[t].assigned_agent
             IN a \in DOMAIN agents
                => /\ t \notin Range(agents'[a].task_queue)
                   /\ agents'[a].active_tasks =
                         agents[a].active_tasks - (IF handler[t] = "sleeping" THEN 1 ELSE 0)]_vars

\* the global queue is in the order of the sort: priority non-increasing, and among
\* tasks of equal priority the one created later first
QueueInKeyOrder(q) ==
    \A i, j \in 1..Len(q) :
        i < j => /\ tasks[q[i]].priority >= tasks[q[j]].priority
                 /\ tasks[q[i]].priority = tasks[q[j]].priority
                    => tasks[q[i]].created_at >= tasks[q[j]].created_at

\* C23: after every submit_task and every run of _assign_tasks the global queue is
\* ordered by non-increasing priority, tasks of equal priority are ordered by
\* creation time (later first), and within one run of _assign_tasks no task is
\* examined before a task of strictly higher priority that the same run examines.
C23_QueueInPriorityOrder ==
    /\ QueueInKeyOrder(task_queue)
    /\ last.op = "assign_tasks"
       => \A i, j \in 1..Len(last.log) :
             i < j => tasks[last.log[i].task].priority >= tasks[last.log[j].task].priority

\* after a submission the queue holds two tasks of equal priority created at
\* different times and, behind them, nothing or a task of lower priority
C23_Witness ==
    /\ last.op = "submit_task" /\ last.valid
    /\ \E i, j \in 1..Len(task_queue) :
          /\ i < j
          /\ tasks[task_queue[i]].priority = tasks[task_queue[j]].priority
          /\ tasks[task_queue[i]].created_at > tasks[task_queue[j]].created_at

\* values of reliability_score between its bounds, in units of 1/Scale
ReliabilityGrid == {0, MinReliability, ReliabilityThreshold, 650, 980, Scale}

\* the registry with the reliability_score of agent a set to r
WithReliability(ag, a, r) == [ag EXCEPT ![a].reliability_score = r]

\* C24: the collaborative score is monotonic in reliability_score: of two states
\* of the registry that differ only in the reliability_score of an agent, the one
\* where it is higher never gives that agent the lower score for a task.
C24_ScoreMonotonicInReliability ==
    \A a \in DOMAIN agents : \A t \in DOMAIN tasks : \A r1, r2 \in ReliabilityGrid :
        r1 <= r2
        => CollaborativeScore(WithReliability(agents, a, r1), trust_scores, tasks[t], a)
           <= CollaborativeScore(WithReliability(agents, a, r2), trust_scores, tasks[t], a)

\* with two agents registered, an agent with a task in its queue scores strictly
\* higher for a task at reliability_score 1.0 than at 0
C24_Witness ==
    \E a \in DOMAIN agents : \E t \in DOMAIN tasks :
        /\ Cardinality(DOMAIN agents) > 1
        /\ agents[a].task_queue # <<>>
        /\ CollaborativeScore(WithReliability(agents, a, 0), trust_scores, tasks[t], a)
           < CollaborativeScore(WithReliability(agents, a, Scale), trust_scores, tasks[t], a)

\* the agents a monitor tick starting now puts into agents_to_remove: TERMINATED
\* with a heartbeat that is not too old
DueForRemoval ==
    {a \in DOMAIN agents : /\ agents[a].status = "terminated"
                           /\ now - agents[a].last_heartbeat <= HeartbeatTimeout}

\* the first agent due for removal whose local queue is not empty, 0 if none
FirstBlocked ==
    LET blocked == {a \in DueForRemoval : agents[a].task_queue # <<>>}
    IN IF blocked = {} THEN 0 ELSE CHOOSE a \in blocked : \A b \in blocked : a <= b

\* a monitor tick whose removals reach an agent with a non-empty local queue
BlockedTick == last'.op = "monitor_tick" /\ FirstBlocked # 0

\* the removal of the blocked agent raised and changed nothing of that agent, of
\* its entries in the capability registry and the trust ledger, or of the queue
BlockedRemovalChangesNothing ==
    /\ ~last'.valid
    /\ FirstBlocked \in DOMAIN agents'
    /\ agents'[FirstBlocked] = agents[FirstBlocked]
    /\ \A c \in DOMAIN capability_registry :
          /\ c \in DOMAIN capability_registry'
          /\ Occurrences(capability_registry'[c], FirstBlocked)
                = Occurrences(capability_registry[c], FirstBlocked)
    /\ \A p \in DOMAIN trust_scores :
          FirstBlocked \in {p[1], p[2]} /\ p[1] \in DOMAIN agents' /\ p[2] \in DOMAIN agents'
          => p \in DOMAIN trust_scores' /\ trust_scores'[p] = trust_scores[p]
    /\ task_queue' = task_queue
    /\ tasks' = tasks
    /\ next_task' = next_task
    /\ pending_cycles' = pending_cycles

\* C25 as stated: _remove_agent on an agent whose local queue is not empty raises
\* and leaves the agent record, the capability registry, the trust ledger and the
\* global queue as they were, and none of the other agents due for removal in the
\* same monitor tick is removed in that tick.
C25_NoOtherAgentRemoved ==
    [][BlockedTick
       => /\ BlockedRemovalChangesNothing
          /\ \A a \in DueForRemoval : a \in DOMAIN agents']_vars

\* C25, amended: _remove_agent on an agent whose local queue is not empty raises
\* and changes nothing of that agent, of its entries in the capability registry
\* and the trust ledger, or of the global queue; the agents due for removal after
\* it in the same monitor tick are not removed in that tick, and those before it
\* have been removed.
C25_LaterAgentsNotRemoved ==
    [][BlockedTick
       => /\ BlockedRemovalChangesNothing
          /\ \A a \in DueForRemoval :
                /\ a > FirstBlocked => a \in DOMAIN agents' /\ agents'[a] = agents[a]
                /\ a < FirstBlocked => a \notin DOMAIN agents']_vars

\* a monitor tick met a blocked agent while another agent, registered after it,
\* was due for removal
C25_Witness ==
    /\ last.op = "monitor_tick" /\ ~last.valid
    /\ \E a, b \in DOMAIN agents :
          /\ a < b
          /\ agents[a].status = "terminated" /\ agents[a].task_queue # <<>>
          /\ agents[b].status = "terminated" /\ agents[b].task_queue = <<>>
          /\ last.log[a] = "terminated" /\ last.log[b] = "terminated"

\* the place of task t in the local queue q
PlaceIn(q, t) == CHOOSE i \in 1..Len(q) : q[i] = t

\* C26: a task is assigned only to an agent that, at the moment of assignment, is
\* registered, is ACTIVE, has a local queue shorter than its max_concurrent_tasks,
\* has a reliability_score above 0.3 and holds one of the task's requirements.
C26_AssignedOnlyToSuitable ==
    [][\A t \in DOMAIN tasks :
          (tasks[t].status = "pending" /\ tasks'[t].status = "assigned")
          => LET a == tasks'[t].assigned_agent
             IN /\ a \in DOMAIN agents
                /\ agents[a].status = "active"
                /\ agents[a].reliability_score > 300
                /\ tasks[t].requirements \cap agents[a].capabilities # {}
                /\ t \in Range(agents'[a].task_queue)
                /\ PlaceIn(agents'[a].task_queue, t) <= MaxConcurrentTasks(agents, a)]_vars

\* a run of _assign_tasks assigned a task while another agent holding the
\* requirement was registered and not ACTIVE
C26_Witness ==
    /\ last.op = "assign_tasks"
    /\ \E i \in 1..Len(last.log) :
          LET t == last.log[i].task
          IN /\ tasks[t].status = "assigned"
             /\ \E b \in DOMAIN agents :
                   /\ b # tasks[t].assigned_agent
                   /\ agents[b].status # "active"
                   /\ tasks[t].requirements \cap agents[b].capabilities # {}

\* a step that is one run of _assign_tasks
CycleRuns == pending_cycles' = pending_cycles - 1 /\ last'.op = "assign_tasks"

\* the tasks of the global queue behind its first ten
BehindBatch == SubSeq(task_queue, Min(10, Len(task_queue)) + 1, Len(task_queue))

\* C27: one run of _assign_tasks examines only the first min(10, queue length)
\* tasks of the global queue as it is when the run starts; every task behind them
\* keeps its status and assignee and its place relative to the other tasks behind
\* them.
C27_CycleExaminesOnlyTheBatch ==
    [][CycleRuns
       => /\ \A i \in 1..Len(last'.log) :
                \E j \in 1..Min(10, Len(task_queue)) : task_queue[j] = last'.log[i].task
          /\ \A t \in Range(BehindBatch) : tasks'[t] = tasks[t]
          /\ SelectSeq(task_queue', LAMBDA t : t \in Range(BehindBatch)) = BehindBatch]_vars

\* a run examined ten tasks and left behind a queue of more than ten, the last of
\* which an agent could have taken
C27_Witness ==
    /\ last.op = "assign_tasks"
    /\ Len(last.log) = 10
    /\ Len(task_queue) > 10
    /\ SuitableSet(capability_registry, agents, tasks[task_queue[Len(task_queue)]]) # {}

\* C28: a run of _assign_tasks is started only by an accepted submit_task (the end
\* of a handler, the creation of an agent and a monitor tick start none), and a
\* task that is pending in the global queue stays there, pending, in every step
\* that is not a run of _assign_tasks.
C28_OnlySubmissionStartsCycle ==
    [][/\ pending_cycles' > pending_cycles
          => /\ last'.op = "submit_task" /\ last'.valid
             /\ next_task' = next_task + 1
             /\ pending_cycles' = pending_cycles + 1
       /\ ~CycleRuns
          => \A t \in Range(task_queue) :
                tasks[t].status = "pending"
                => t \in Range(task_queue') /\ tasks'[t].status = "pending"]_vars

\* an agent became ACTIVE that could take a task pending in the global queue, and
\* no run of _assign_tasks is due
C28_Witness ==
    /\ last.op = "create_agent_done"
    /\ pending_cycles = 0
    /\ \E t \in Range(task_queue) :
          /\ tasks[t].status = "pending"
          /\ SuitableSet(capability_registry, agents, tasks[t]) # {}

\* C29: a monitor tick changes the status of an agent to ERROR only when the agent
\* is ACTIVE and its last heartbeat is more than 300 seconds old; the status of an
\* agent that is not ACTIVE is left as it is.
C29_OnlyActiveBecomesError ==
    [][last'.op = "monitor_tick"
       => \A a \in DOMAIN agents \cap DOMAIN agents' :
             agents'[a].status # agents[a].status
             => /\ agents[a].status = "active"
                /\ now - agents[a].last_heartbeat > 300
                /\ agents'[a].status = "error"]_vars

\* the lists a non-empty set of registered agents can be handed over as
SuitableLists == UNION {Orderings(S) : S \in (SUBSET DOMAIN agents) \ {{}}}

\* C30: for every task and every non-empty list of suitable agents, each of the
\* three selection strategies, and _select_agent_for_task with its shortcut for a
\* single candidate, returns one agent id, and that id is a member of the list.
C30_SelectionReturnsMember ==
    \A t \in DOMAIN tasks : \A list \in SuitableLists :
        /\ SelectAgentCollaborative(agents, trust_scores, tasks[t], list) \in Range(list)
        /\ SelectAgentCompetitive(agents, tasks[t], list) # {}
        /\ SelectAgentCompetitive(agents, tasks[t], list) \subseteq Range(list)
        /\ SelectAgentHybrid(agents, trust_scores, tasks[t], list) # {}
        /\ SelectAgentHybrid(agents, trust_scores, tasks[t], list) \subseteq Range(list)
        /\ \A mode \in Modes :
              /\ SelectAgentForTask(mode, agents, trust_scores, tasks[t], list) # {}
              /\ SelectAgentForTask(mode, agents, trust_scores, tasks[t], list)
                    \subseteq Range(list)

\* a run of _assign_tasks found two suitable agents for a task and assigned it to
\* one of them
C30_Witness ==
    /\ last.op = "assign_tasks"
    /\ \E i \in 1..Len(last.log) :
          LET t == last.log[i].task
              suitable == last.log[i].suitable
          IN /\ Cardinality(suitable) >= 2
             /\ tasks[t].assigned_agent \in suitable

\* the agents the collaborative strategy can return for task t among the agents
\* of S, over the orders S can be listed in
CollaborativeChoices(t, S) ==
    {SelectAgentCollaborative(agents, trust_scores, tasks[t], list) : list \in Orderings(S)}

\* the same for the competitive strategy, over the orders and the draws
CompetitiveChoices(t, S) ==
    UNION {SelectAgentCompetitive(agents, tasks[t], list) : list \in Orderings(S)}

\* C31: in hybrid mode with at least two suitable agents, a task with priority
\* >= 8 or more than 3 requirements is assigned to the collaborative choice, a
\* task with priority <= 3 (and at most 3 requirements) to the competitive choice,
\* and any other task to one of the two.  (Stated of the first task a run of
\* _assign_tasks examines, whose choice is made in the state the run starts in.)
C31_HybridFollowsPriority ==
    [][(CycleRuns /\ coordination_mode = "hybrid" /\ Len(last'.log) >= 1)
       => LET t == last'.log[1].task
              S == last'.log[1].suitable
              chosen == tasks'[t].assigned_agent
          IN (Cardinality(S) >= 2 /\ tasks'[t].status = "assigned")
             => IF tasks[t].priority >= 8 \/ Cardinality(tasks[t].requirements) > 3
                THEN chosen \in CollaborativeChoices(t, S)
                ELSE IF tasks[t].priority <= 3
                THEN chosen \in CompetitiveChoices(t, S)
                ELSE chosen \in CollaborativeChoices(t, S) \cup CompetitiveChoices(t, S)]_vars

\* a task of low priority with four requirements went to the agent with the
\* empty queue while the other suitable agent had a task
C31_Witness ==
    /\ coordination_mode = "hybrid"
    /\ last.op = "assign_tasks"
    /\ Len(last.log) = 1
    /\ LET t == last.log[1].task
           S == last.log[1].suitable
       IN /\ Cardinality(S) >= 2
          /\ Cardinality(tasks[t].requirements) > 3
          /\ tasks[t].priority <= 3
          /\ tasks[t].status = "assigned"
          /\ agents[tasks[t].assigned_agent].task_queue = <<t>>
          /\ \E b \in S \ {tasks[t].assigned_agent} : agents[b].task_queue # <<>>

\* the ordered pairs of distinct registered agents
RegisteredPairs == {p \in (DOMAIN agents) \X (DOMAIN agents) : p[1] # p[2]}

\* C32: in every reachable state the trust ledger holds an edge for exactly the
\* ordered pairs of distinct registered agents (create_agent adds both directions
\* toward every agent already registered, _remove_agent deletes every edge that
\* touches the removed agent, no edge names an unregistered agent), and every
\* edge that appears starts at 0.5 (10 twentieths).
C32_TrustEdgesMatchAgents ==
    /\ [](DOMAIN trust_scores = RegisteredPairs)
    /\ [][\A p \in DOMAIN trust_scores' \ DOMAIN trust_scores : trust_scores'[p] = 10]_vars

\* agents have been removed, and those registered later trust each other
C32_Witness ==
    /\ \E a \in 1..(next_agent - 1) : a \notin DOMAIN agents
    /\ Cardinality(DOMAIN agents) >= 2
    /\ DOMAIN trust_scores # {}

\* C33: the status of an agent changes only from INITIALIZING to ACTIVE (or to
\* ERROR) at the end of create_agent, from any status to ERROR by the heartbeat
\* check of a monitor tick, and from any status to TERMINATED by shutdown; no
\* operation but shutdown moves an agent out of ERROR or sets TERMINATED.
C33_StatusTransitions ==
    [][\A a \in DOMAIN agents \cap DOMAIN agents' :
          agents'[a].status # agents[a].status
          => \/ /\ last'.op = "create_agent_done"
                /\ agents[a].status = "initializing"
                /\ agents'[a].status \in {"active", "error"}
             \/ /\ last'.op = "monitor_tick"
                /\ agents'[a].status = "error"
             \/ /\ last'.op \in {"shutdown", "shutdown_done"}
                /\ agents'[a].status = "terminated"]_vars

\* agent a is in no suitable-agent set when its reliability_score is r
NeverSuitableAt(a, r) ==
    \A t \in DOMAIN tasks :
        a \notin SuitableSet(capability_registry, WithReliability(agents, a, r), tasks[t])

\* C34: the reliability_score of an agent changes only when a handler of one of
\* its own tasks completes, and it is never below 0.1; an agent whose
\* reliability_score is at most 0.3 is in no suitable-agent set, so with an empty
\* local queue (no handler left to change the score) it is never assigned again.
C34_LowReliabilityIsFinal ==
    /\ [](\A a \in DOMAIN agents :
             /\ agents[a].reliability_score >= 100
             /\ \A r \in ReliabilityGrid : r <= 300 => NeverSuitableAt(a, r))
    /\ [][\A a \in DOMAIN agents \cap DOMAIN agents' :
             agents'[a].reliability_score # agents[a].reliability_score
             => /\ Completes
                /\ task_history'[Len(task_history')].agent_id = a]_vars

\* a handler of an agent has completed, its local queue is empty, and the agent is
\* suitable for a task as it is but not with a reliability_score of 0.3
C34_Witness ==
    /\ last.op = "handler_finish"
    /\ \E a \in DOMAIN agents : \E t \in DOMAIN tasks :
          /\ agents[a].task_queue = <<>>
          /\ agents[a].completed_tasks > 0
          /\ a \in SuitableSet(capability_registry, agents, tasks[t])
          /\ a \notin SuitableSet(capability_registry, WithReliability(agents, a, 300), tasks[t])

\* C35: between the runs of _assign_tasks every task in the global queue is
\* pending and has no assignee, and every task with status assigned is outside the
\* global queue and, until its handler ends, in the local queue of exactly the
\* agent recorded as its assignee.
C35_QueuesAgreeWithStatus ==
    /\ \A t \in Range(task_queue) :
          tasks[t].status = "pending" /\ tasks[t].assigned_agent = 0
    /\ \A t \in DOMAIN tasks :
          tasks[t].status = "assigned"
          => /\ t \notin Range(task_queue)
             /\ t \in DOMAIN handler
             /\ handler[t] # "done"
                => /\ HoldersOf(t) = {tasks[t].assigned_agent}
                   /\ Occurrences(agents[tasks[t].assigned_agent].task_queue, t) = 1

\* a task waits in the global queue while another, assigned in a run that passed
\* the first by, is in a local queue with its handler at work
C35_Witness ==
    /\ pending_cycles = 0
    /\ \E t \in Range(task_queue), u \in DOMAIN handler :
          /\ tasks[t].priority > tasks[u].priority
          /\ tasks[u].status = "assigned"
          /\ handler[u] = "sleeping"

RECURSIVE SumOver(_, _)
\* the sum of f[a] over the agents a of S
SumOver(f, S) ==
    IF S = {} THEN 0
    ELSE LET a == CHOOSE x \in S : TRUE IN f[a] + SumOver(f, S \ {a})

\* no agent has been removed
NoneRemoved == DOMAIN agents = 1..(next_agent - 1)

ShutdownHasReturned ==
    /\ shutting = 0
    /\ \E a \in DOMAIN agents : agents[a].status = "terminated"

\* C37: after shutdown has returned, submit_task still accepts valid tasks, but no
\* task is assigned any more: every later run of _assign_tasks finds no suitable
\* agent for any task.
C37_NoAssignmentAfterShutdown ==
    (ShutdownHasReturned /\ last.op = "assign_tasks")
    => \A i \in 1..Len(last.log) :
          /\ last.log[i].suitable = {}
          /\ tasks[last.log[i].task].status # "assigned"

\* contribution and confidence of an entry of coordination_results, in units of
\* 1/Scale: error entries carry 0 and 0
EntryValues ==
    {[contribution |-> 0, confidence |-> 0, error |-> TRUE],
     [contribution |-> 500, confidence |-> 700, error |-> FALSE],
     [contribution |-> 500, confidence |-> 1000, error |-> FALSE],
     [contribution |-> 1000, confidence |-> 700, error |-> FALSE],
     [contribution |-> 1000, confidence |-> 0, error |-> FALSE]}

\* the coordination_results that can be built for registered agents, each agent
\* at most once, with the values of EntryValues
CombineInputs ==
    {[i \in 1..Len(ids) |->
        [agent_id |-> ids[i], contribution |-> vals[i].contribution,
         confidence |-> vals[i].confidence, error |-> vals[i].error]] :
        ids \in UNION {Orderings(S) : S \in (SUBSET DOMAIN agents) \ {{}}},
        vals \in [1..Cardinality(DOMAIN agents) -> EntryValues]}

\* v is the contribution of an entry of results whose contribution * confidence
\* is maximal among the entries
IsBestContribution(results, v) ==
    \E i \in 1..Len(results) :
        /\ results[i].contribution = v
        /\ \A j \in 1..Len(results) :
              results[j].contribution * results[j].confidence
                 <= results[i].contribution * results[i].confidence

\* the calls of coordinate_agents that returned a combined result in mode m
Combined(m) ==
    {c \in DOMAIN coord : /\ coord[c].returned /\ coord[c].success
                          /\ coord[c].coordination_mode = m}

\* C38: in competitive mode the combined value is the contribution of a
\* contributor whose contribution * confidence is maximal among all contributors:
\* for every coordination_results over a range of values, and for every result a
\* call of coordinate_agents returned.
C38_CompetitiveTakesBest ==
    /\ \A results \in CombineInputs :
          IsBestContribution(results, CombineCompetitive(results))
    /\ \A c \in Combined("competitive") :
          IsBestContribution(coord[c].result.individual_contributions,
                             coord[c].result.combined_value)

\* a call returned the contribution of the agent with the lower confidence, whose
\* product was the higher
C38_Witness ==
    \E c \in Combined("competitive") :
        LET r == coord[c].result.individual_contributions
        IN \E i, j \in 1..Len(r) :
              /\ r[i].contribution = coord[c].result.combined_value
              /\ r[i].confidence < r[j].confidence
              /\ r[i].contribution * r[i].confidence > r[j].contribution * r[j].confidence

\* the registries that differ from the current one in reliability_score only
ReliabilityVariants ==
    {[a \in DOMAIN agents |-> [agents[a] EXCEPT !.reliability_score = rel[a]]] :
        rel \in [DOMAIN agents -> {MinReliability, Scale}]}

\* the weight of an entry: confidence * reliability_score of its agent, 0 for an
\* error entry
EntryWeight(ag, r) ==
    IF r.error THEN 0 ELSE (r.confidence * ag[r.agent_id].reliability_score) \div Scale

\* v is the average of the contributions weighted by EntryWeight (rounded down),
\* or their plain mean when the weights sum to 0
IsWeightedAverage(ag, results, v) ==
    LET n == Len(results)
        total == SumTo([i \in 1..n |-> EntryWeight(ag, results[i])], n)
        weighted == SumTo([i \in 1..n |->
                             results[i].contribution * EntryWeight(ag, results[i])], n)
        plain == SumTo([i \in 1..n |-> results[i].contribution], n)
    IN IF total > 0
       THEN v * total <= weighted /\ weighted < (v + 1) * total
       ELSE v * n <= plain /\ plain < (v + 1) * n

\* C39: in collaborative mode the combined value is the average of the
\* contributions weighted by confidence * reliability_score of the contributor,
\* and the plain mean of all contributions when the total weight is 0 (every entry
\* a zero-confidence or error entry): for every coordination_results over a range
\* of values and reliability scores, and for every result a call returned.
C39_CollaborativeWeightedAverage ==
    /\ \A ag \in ReliabilityVariants : \A results \in CombineInputs :
          IsWeightedAverage(ag, results, CombineCollaborative(ag, results))
    /\ \A c \in Combined("collaborative") :
          IsWeightedAverage(agents, coord[c].result.individual_contributions,
                            coord[c].result.combined_value)

\* a call returned a weighted average strictly between two contributions, and
\* for an error entry with a zero-confidence entry the total weight is 0 and the
\* value is the plain mean
C39_Witness ==
    /\ \E c \in Combined("collaborative") :
          LET r == coord[c].result.individual_contributions
          IN \E i, j \in 1..Len(r) :
                /\ r[i].contribution < coord[c].result.combined_value
                /\ coord[c].result.combined_value < r[j].contribution
    /\ \E results \in CombineInputs :
          /\ Len(results) = 2
          /\ results[1].error
          /\ results[2].contribution = 1000 /\ results[2].confidence = 0
          /\ CombineCollaborative(agents, results) = 500

\* the agents of S in the order they were appended to the capability registry
\* entry of the single requirement of task t
IndexOrder(t, S) ==
    LET r == CHOOSE x \in tasks[t].requirements : TRUE
    IN SelectSeq(capability_registry[r], LAMBDA a : a \in S)

\* C40: when suitable agents tie on the score of a strategy, the agent returned is
\* the one the order of insertion into the capability registry puts first, so that
\* the same state and task always give the same agent.  (Stated of the
\* collaborative strategy, whose scores involve no draw, for the first task a run
\* of _assign_tasks examines, and for tasks with one requirement.)
C40_TieBrokenByIndexOrder ==
    [][(CycleRuns /\ coordination_mode = "collaborative" /\ Len(last'.log) >= 1)
       => LET t == last'.log[1].task
              S == last'.log[1].suitable
          IN (/\ Cardinality(S) >= 2
              /\ Cardinality(tasks[t].requirements) = 1
              /\ tasks'[t].status = "assigned")
             => tasks'[t].assigned_agent
                   = SelectAgentCollaborative(agents, trust_scores, tasks[t],
                                              IndexOrder(t, S))]_vars

============================================================================
